---------------------------- MODULE Spec2Model ----------------------------
(***************************************************************************)
(* Interview Coach (src/api/index.py): the document parsers                *)
(* (_is_section_header, parse_resume, parse_job_description), the          *)
(* personalised question generator and the coaching session state machine  *)
(* driven by handler.do_POST.                                              *)
(*                                                                         *)
(* A Python str on which the code does character work (documents, lines,   *)
(* skills, titles, roles, questions) is a sequence of one-character        *)
(* strings; the characters U+2013, U+2014, U+2022 and U+00B7 are written   *)
(* "<endash>", "<emdash>", "<bullet>" and "<middot>".  A str that the code *)
(* only compares (step names, question types, section names, paths) is a   *)
(* TLA+ string.                                                            *)
(***************************************************************************)
EXTENDS Integers, Sequences, FiniteSets, TLC

VARIABLES
    SESSIONS,   \* index.py:89  the process-wide session table, id -> session
    request,    \* the POST request do_POST handled in the last step, if any
    response,   \* what _send_response wrote for it (status and JSON body)
    fn,         \* the function being run: "parse_resume",
                \* "parse_job_description", "_is_section_header" or
                \* "generate_personalized_questions"
    text,       \* its str argument (resume_text / jd_text / line)
    lines,      \* text.strip().split('\n')
    i,          \* number of lines the for loop has consumed
    frame,      \* the loop's locals: parsed, current_section, section_content,
                \* title_candidates_checked; for a single call the other
                \* argument and the result
    pc          \* "entry", "loop", "saved", "done"; "call", "return"

vars == <<SESSIONS, request, response, fn, text, lines, i, frame, pc>>
apiVars == <<SESSIONS, request, response>>
parserVars == <<fn, text, lines, i, frame, pc>>

---------------------------------------------------------------------------
(* Python values                                                           *)

\* None where a compared-only str is expected (current_section = None), where
\* a character-level str is expected, where a dict is expected and where a
\* list of str is expected.
None == "<None>"
NoneStr == <<"<None>">>
NoneDict == [none |-> TRUE]
NoneList == <<NoneStr>>

\* The whitespace str.strip() removes.
Whitespace == {" ", "\t", "\n", "\r"}

UpperCase ==
    [A |-> "a", B |-> "b", C |-> "c", D |-> "d", E |-> "e", F |-> "f",
     G |-> "g", H |-> "h", I |-> "i", J |-> "j", K |-> "k", L |-> "l",
     M |-> "m", N |-> "n", O |-> "o", P |-> "p", Q |-> "q", R |-> "r",
     S |-> "s", T |-> "t", U |-> "u", V |-> "v", W |-> "w", X |-> "x",
     Y |-> "y", Z |-> "z"]

\* str.lower(), character by character.
LowerChar(c) == IF c \in DOMAIN UpperCase THEN UpperCase[c] ELSE c
Lower(s) == [k \in 1..Len(s) |-> LowerChar(s[k])]

\* re.sub(r'[chars]', '', s)
RemoveChars(s, chars) == SelectSeq(s, LAMBDA c : c \notin chars)

RECURSIVE FirstNonWs(_, _)
FirstNonWs(s, k) ==
    IF k > Len(s) THEN k
    ELSE IF s[k] \in Whitespace THEN FirstNonWs(s, k + 1) ELSE k

RECURSIVE LastNonWs(_, _)
LastNonWs(s, k) ==
    IF k < 1 THEN k
    ELSE IF s[k] \in Whitespace THEN LastNonWs(s, k - 1) ELSE k

\* str.strip()
Strip(s) == SubSeq(s, FirstNonWs(s, 1), LastNonWs(s, Len(s)))

\* The position of the first character of s that is in seps, 0 if none.
FirstIn(s, seps) ==
    LET hits == {k \in 1..Len(s) : s[k] \in seps} IN
    IF hits = {} THEN 0 ELSE CHOOSE m \in hits : \A n \in hits : m <= n

\* s.split(sep) for a one-character sep, and re.split(r'[seps]', s): the
\* pieces between separators, empty pieces included.
RECURSIVE SplitOn(_, _)
SplitOn(s, seps) ==
    LET p == FirstIn(s, seps) IN
    IF p = 0 THEN <<s>>
    ELSE <<SubSeq(s, 1, p - 1)>> \o SplitOn(SubSeq(s, p + 1, Len(s)), seps)

\* s.startswith(p)
StartsWith(s, p) == Len(p) <= Len(s) /\ SubSeq(s, 1, Len(p)) = p

\* p in s
Contains(s, p) ==
    \E k \in 0..(Len(s) - Len(p)) : SubSeq(s, k + 1, k + Len(p)) = p

\* s[:n]
Take(s, n) == SubSeq(s, 1, IF Len(s) < n THEN Len(s) ELSE n)

\* sep.join(parts)
RECURSIVE Join(_, _)
Join(sep, parts) ==
    IF parts = <<>> THEN <<>>
    ELSE IF Len(parts) = 1 THEN parts[1]
    ELSE parts[1] \o sep \o Join(sep, Tail(parts))

\* Variant: only None is falsy.
Truthy_unless_None(s) == s # NoneStr

\* Python truthiness of an Optional[str]: None and '' are falsy.
Truthy(s) == s # NoneStr /\ s # <<>>

---------------------------------------------------------------------------
(* _is_section_header, index.py:281-297                                    *)

HeaderMaxLen == 50
HeaderSlack == 15

HeaderPunctuation == {":", "-", "<endash>", "<emdash>"}

line_clean(line) == Strip(RemoveChars(Lower(line), HeaderPunctuation))

\* Variant: the slack comparison admits len(header) + 15 itself.
HeaderMatches_at_most(clean, header) ==
    \/ clean = header
    \/ StartsWith(clean, header \o <<" ">>)
    \/ Contains(clean, header) /\ Len(clean) <= Len(header) + HeaderSlack

HeaderMatches(clean, header) ==
    \/ clean = header
    \/ StartsWith(clean, header \o <<" ">>)
    \/ Contains(clean, header) /\ Len(clean) < Len(header) + HeaderSlack

\* Variant: the length of the cleaned line is not tested.
_is_section_header_any_length(line, headers) ==
    LET clean == line_clean(line) IN
    \E k \in 1..Len(headers) : HeaderMatches(clean, headers[k])

_is_section_header(line, headers) ==
    LET clean == line_clean(line) IN
    IF Len(clean) > HeaderMaxLen THEN FALSE
    ELSE \E k \in 1..Len(headers) : HeaderMatches(clean, headers[k])

---------------------------------------------------------------------------
(* parse_resume, index.py:300-375                                          *)

skill_headers == <<<<"s","k","i","l","l","s">>, <<"t","e","c","h","n","i","c","a","l"," ","s","k","i","l","l","s">>, <<"c","o","r","e"," ","c","o","m","p","e","t","e","n","c","i","e","s">>,
                   <<"c","o","m","p","e","t","e","n","c","i","e","s">>, <<"e","x","p","e","r","t","i","s","e">>>>
exp_headers == <<<<"e","x","p","e","r","i","e","n","c","e">>, <<"w","o","r","k"," ","e","x","p","e","r","i","e","n","c","e">>,
                 <<"p","r","o","f","e","s","s","i","o","n","a","l"," ","e","x","p","e","r","i","e","n","c","e">>, <<"e","m","p","l","o","y","m","e","n","t">>,
                 <<"w","o","r","k"," ","h","i","s","t","o","r","y">>>>
edu_headers == <<<<"e","d","u","c","a","t","i","o","n">>, <<"a","c","a","d","e","m","i","c"," ","b","a","c","k","g","r","o","u","n","d">>, <<"q","u","a","l","i","f","i","c","a","t","i","o","n","s">>,
                 <<"d","e","g","r","e","e","s">>>>
summary_headers == <<<<"s","u","m","m","a","r","y">>, <<"p","r","o","f","e","s","s","i","o","n","a","l"," ","s","u","m","m","a","r","y">>, <<"p","r","o","f","i","l","e">>,
                     <<"o","b","j","e","c","t","i","v","e">>, <<"a","b","o","u","t">>>>

SkillSeparators == {",", "<bullet>", "<middot>", "|"}
SummaryLimit == 1000

\* Variant: every non-empty fragment is kept.
SkillsOfLine_keeps_single(line) ==
    LET frags == SplitOn(line, SkillSeparators)
        stripped == [k \in 1..Len(frags) |-> Strip(frags[k])]
    IN SelectSeq(stripped, LAMBDA skill : skill # <<>>)

\* The inner loops of _save_section's skills branch: the fragments of one
\* line that are kept.
SkillsOfLine(line) ==
    LET frags == SplitOn(line, SkillSeparators)
        stripped == [k \in 1..Len(frags) |-> Strip(frags[k])]
    IN SelectSeq(stripped, LAMBDA skill : skill # <<>> /\ Len(skill) > 1)

RECURSIVE SkillsOfLines(_)
SkillsOfLines(content) ==
    IF content = <<>> THEN <<>>
    ELSE SkillsOfLine(Head(content)) \o SkillsOfLines(Tail(content))

_save_section(parsed, section, content) ==
    IF section = "skills"
        THEN [parsed EXCEPT !.skills = @ \o SkillsOfLines(content)]
    ELSE IF section = "experience"
        THEN [parsed EXCEPT !.experience = content]
    ELSE IF section = "education"
        THEN [parsed EXCEPT !.education = content]
    ELSE IF section = "summary"
        THEN [parsed EXCEPT !.summary = Join(<<" ">>, content)]
    ELSE parsed

\* if current_section and section_content: _save_section(...)
ResumeFlush(f) ==
    IF f.current_section # None /\ f.section_content # <<>>
    THEN _save_section(f.parsed, f.current_section, f.section_content)
    ELSE f.parsed

\* Variant: the experience vocabulary is tested before the skills one.
ResumeHeaderOf_experience_first(line) ==
    IF _is_section_header(line, exp_headers) THEN "experience"
    ELSE IF _is_section_header(line, skill_headers) THEN "skills"
    ELSE IF _is_section_header(line, edu_headers) THEN "education"
    ELSE IF _is_section_header(line, summary_headers) THEN "summary"
    ELSE None

\* The if/elif chain of the loop: the section a header line opens, or
\* None when the line is no header.
ResumeHeaderOf(line) ==
    IF _is_section_header(line, skill_headers) THEN "skills"
    ELSE IF _is_section_header(line, exp_headers) THEN "experience"
    ELSE IF _is_section_header(line, edu_headers) THEN "education"
    ELSE IF _is_section_header(line, summary_headers) THEN "summary"
    ELSE None

\* Variant: raw_text is resume_text or ''.
ResumeEntry_raw_or_empty(resume_text) ==
    [parsed |-> [raw_text |-> IF Truthy(resume_text) THEN resume_text ELSE <<>>,
                 skills |-> <<>>, experience |-> <<>>, education |-> <<>>,
                 summary |-> <<>>],
     current_section |-> None,
     section_content |-> <<>>,
     title_candidates_checked |-> 0]

\* Variant: the result dictionary is one object shared by all calls, so a
\* call starts from the lists the previous call of either parser left.
ResumeEntry_shared_result(resume_text) ==
    [parsed |-> [raw_text |-> resume_text,
                 skills |-> IF "parsed" \in DOMAIN frame
                               /\ "skills" \in DOMAIN frame.parsed
                            THEN frame.parsed.skills ELSE <<>>,
                 experience |-> <<>>, education |-> <<>>, summary |-> <<>>],
     current_section |-> None,
     section_content |-> <<>>,
     title_candidates_checked |-> 0]

\* Variant: the lines before the first header count as experience.
ResumeEntry_starts_in_experience(resume_text) ==
    [parsed |-> [raw_text |-> resume_text, skills |-> <<>>,
                 experience |-> <<>>, education |-> <<>>, summary |-> <<>>],
     current_section |-> "experience",
     section_content |-> <<>>,
     title_candidates_checked |-> 0]

\* index.py:302-315: the locals before the loop.
ResumeEntry(resume_text) ==
    [parsed |-> [raw_text |-> resume_text, skills |-> <<>>,
                 experience |-> <<>>, education |-> <<>>, summary |-> <<>>],
     current_section |-> None,
     section_content |-> <<>>,
     title_candidates_checked |-> 0]

\* Variant: a header line is also kept as the first line of its section.
ResumeLine_keeps_header(f, line) ==
    LET section == ResumeHeaderOf(line) IN
    IF section # None
        THEN [f EXCEPT !.parsed = ResumeFlush(f),
                       !.current_section = section,
                       !.section_content = <<Strip(line)>>]
    ELSE IF Strip(line) # <<>>
        THEN [f EXCEPT !.section_content = Append(@, Strip(line))]
    ELSE f

\* index.py:323-346: one iteration of the loop.
ResumeLine(f, line) ==
    LET section == ResumeHeaderOf(line) IN
    IF section # None
        THEN [f EXCEPT !.parsed = ResumeFlush(f),
                       !.current_section = section,
                       !.section_content = <<>>]
    ELSE IF Strip(line) # <<>>
        THEN [f EXCEPT !.section_content = Append(@, Strip(line))]
    ELSE f

\* Variant: the fallback takes the text without its surrounding blanks.
ResumeFallback_trimmed(parsed) ==
    IF parsed.summary = <<>> /\ parsed.experience = <<>>
    THEN [parsed EXCEPT !.summary = Take(Strip(parsed.raw_text), SummaryLimit)]
    ELSE parsed

\* Variant: the fallback also applies when only one of the two is empty.
ResumeFallback_either_empty(parsed) ==
    IF parsed.summary = <<>> \/ parsed.experience = <<>>
    THEN [parsed EXCEPT !.summary = Take(parsed.raw_text, SummaryLimit)]
    ELSE parsed

\* index.py:352-354: if not parsed['summary'] and not parsed['experience'].
ResumeFallback(parsed) ==
    IF parsed.summary = <<>> /\ parsed.experience = <<>>
    THEN [parsed EXCEPT !.summary = Take(parsed.raw_text, SummaryLimit)]
    ELSE parsed

\* index.py:348-356: after the loop.
ResumeExit(f) == [f EXCEPT !.parsed = ResumeFallback(ResumeFlush(f))]

---------------------------------------------------------------------------
(* parse_job_description, index.py:378-455                                 *)

req_headers == <<<<"r","e","q","u","i","r","e","m","e","n","t","s">>, <<"r","e","q","u","i","r","e","d">>, <<"m","u","s","t"," ","h","a","v","e">>, <<"e","s","s","e","n","t","i","a","l">>>>
resp_headers == <<<<"r","e","s","p","o","n","s","i","b","i","l","i","t","i","e","s">>, <<"d","u","t","i","e","s">>, <<"w","h","a","t"," ","y","o","u"," ","w","i","l","l"," ","d","o">>,
                  <<"r","o","l","e">>, <<"j","o","b"," ","d","u","t","i","e","s">>>>
qual_headers == <<<<"q","u","a","l","i","f","i","c","a","t","i","o","n","s">>, <<"p","r","e","f","e","r","r","e","d">>, <<"n","i","c","e"," ","t","o"," ","h","a","v","e">>,
                  <<"d","e","s","i","r","e","d">>, <<"s","k","i","l","l","s">>>>
about_headers == <<<<"a","b","o","u","t">>, <<"a","b","o","u","t"," ","t","h","e"," ","c","o","m","p","a","n","y">>, <<"c","o","m","p","a","n","y">>,
                   <<"w","h","o"," ","w","e"," ","a","r","e">>, <<"o","v","e","r","v","i","e","w">>>>

TitleCandidates == 3

_save_jd_section(parsed, section, content) ==
    IF section = "requirements"
        THEN [parsed EXCEPT !.requirements = content]
    ELSE IF section = "responsibilities"
        THEN [parsed EXCEPT !.responsibilities = content]
    ELSE IF section = "qualifications"
        THEN [parsed EXCEPT !.qualifications = content]
    ELSE IF section = "company_info"
        THEN [parsed EXCEPT !.company_info = Join(<<" ">>, content)]
    ELSE parsed

JDFlush(f) ==
    IF f.current_section # None /\ f.section_content # <<>>
    THEN _save_jd_section(f.parsed, f.current_section, f.section_content)
    ELSE f.parsed

JDHeaderOf(line) ==
    IF _is_section_header(line, req_headers) THEN "requirements"
    ELSE IF _is_section_header(line, resp_headers) THEN "responsibilities"
    ELSE IF _is_section_header(line, qual_headers) THEN "qualifications"
    ELSE IF _is_section_header(line, about_headers) THEN "company_info"
    ELSE None

\* index.py:380-395
JDEntry(jd_text) ==
    [parsed |-> [raw_text |-> jd_text, title |-> <<>>, requirements |-> <<>>,
                 responsibilities |-> <<>>, qualifications |-> <<>>,
                 company_info |-> <<>>],
     current_section |-> None,
     section_content |-> <<>>,
     title_candidates_checked |-> 0]

\* Variant: a title is still looked for after a section has been entered.
JDLine_title_in_section(f, line) ==
    LET section == JDHeaderOf(line) IN
    IF section # None
        THEN [f EXCEPT !.parsed = JDFlush(f),
                       !.current_section = section,
                       !.section_content = <<>>]
    ELSE IF Strip(line) # <<>>
        THEN IF /\ f.parsed.title = <<>>
                /\ f.title_candidates_checked < TitleCandidates
             THEN [f EXCEPT !.parsed.title = Strip(line),
                            !.title_candidates_checked = @ + 1]
             ELSE [f EXCEPT !.section_content = Append(@, Strip(line))]
    ELSE f

\* Variant: every candidate line before the first header replaces the title.
JDLine_title_last(f, line) ==
    LET section == JDHeaderOf(line) IN
    IF section # None
        THEN [f EXCEPT !.parsed = JDFlush(f),
                       !.current_section = section,
                       !.section_content = <<>>]
    ELSE IF Strip(line) # <<>>
        THEN IF /\ f.current_section = None
                /\ f.title_candidates_checked < TitleCandidates
             THEN [f EXCEPT !.parsed.title = Strip(line),
                            !.title_candidates_checked = @ + 1]
             ELSE [f EXCEPT !.section_content = Append(@, Strip(line))]
    ELSE f

\* index.py:403-437: one iteration of the loop.
JDLine(f, line) ==
    LET section == JDHeaderOf(line) IN
    IF section # None
        THEN [f EXCEPT !.parsed = JDFlush(f),
                       !.current_section = section,
                       !.section_content = <<>>]
    ELSE IF Strip(line) # <<>>
        THEN IF /\ f.parsed.title = <<>>
                /\ f.current_section = None
                /\ f.title_candidates_checked < TitleCandidates
             THEN [f EXCEPT !.parsed.title = Strip(line),
                            !.title_candidates_checked = @ + 1]
             ELSE [f EXCEPT !.section_content = Append(@, Strip(line))]
    ELSE f

\* index.py:439-443
JDExit(f) == [f EXCEPT !.parsed = JDFlush(f)]

---------------------------------------------------------------------------
(* The two parsers as functions of their argument.                         *)

\* text.strip().split('\n')
SplitLines(t) == SplitOn(Strip(t), {"\n"})

RECURSIVE ResumeLoop(_, _)
ResumeLoop(f, ls) ==
    IF ls = <<>> THEN f ELSE ResumeLoop(ResumeLine(f, Head(ls)), Tail(ls))

RECURSIVE JDLoop(_, _)
JDLoop(f, ls) ==
    IF ls = <<>> THEN f ELSE JDLoop(JDLine(f, Head(ls)), Tail(ls))

parse_resume(resume_text) ==
    IF ~Truthy(resume_text) THEN ResumeEntry(resume_text).parsed
    ELSE ResumeExit(ResumeLoop(ResumeEntry(resume_text),
                               SplitLines(resume_text))).parsed

parse_job_description(jd_text) ==
    IF ~Truthy(jd_text) THEN JDEntry(jd_text).parsed
    ELSE JDExit(JDLoop(JDEntry(jd_text), SplitLines(jd_text))).parsed

---------------------------------------------------------------------------
(* Configuration and question banks, index.py:22-150                       *)

QuestionType ==
    {"behavioral", "alignment", "cro_management", "motivation", "curveball"}

TrainingStep ==
    {"identify_principle", "create_anchors", "guided_recall",
     "delivery_practice", "compression", "random_entry"}

InterviewerType ==
    {"hiring_manager", "recruiter", "skip_level", "peer", "hr", "panel"}

CURVEBALL_QUESTIONS ==
    <<<<"Y","o","u","'","v","e"," ","m","a","n","a","g","e","d"," ","C","R","O","s"," ","b","e","f","o","r","e"," ","<emdash>"," ","b","u","t"," ","w","h","a","t"," ","m","a","k","e","s"," ","y","o","u"," ","t","h","i","n","k"," ","y","o","u"," ","c","a","n"," ","a","c","t","u","a","l","l","y"," ","h","o","l","d"," ","t","h","e","m"," ","a","c","c","o","u","n","t","a","b","l","e"," ","w","h","e","n"," ","t","i","m","e","l","i","n","e","s"," ","s","l","i","p"," ","a","n","d"," ","t","h","e","y"," ","p","u","s","h"," ","b","a","c","k","?">>,
      <<"T","e","l","l"," ","m","e"," ","a","b","o","u","t"," ","a"," ","t","i","m","e"," ","a"," ","C","R","O"," ","c","o","m","p","l","e","t","e","l","y"," ","f","a","i","l","e","d"," ","y","o","u","."," ","W","h","a","t"," ","d","i","d"," ","y","o","u"," ","d","o"," ","w","r","o","n","g","?">>,
      <<"I","f"," ","y","o","u","r"," ","C","R","O"," ","p","a","r","t","n","e","r"," ","s","a","y","s"," ","t","h","e"," ","t","i","m","e","l","i","n","e"," ","i","s"," ","i","m","p","o","s","s","i","b","l","e",","," ","w","h","a","t","'","s"," ","y","o","u","r"," ","m","o","v","e","?">>,
      <<"W","h","y"," ","s","h","o","u","l","d"," ","w","e"," ","h","i","r","e"," ","y","o","u"," ","o","v","e","r"," ","s","o","m","e","o","n","e"," ","w","i","t","h"," ","1","0"," ","y","e","a","r","s"," ","o","f"," ","e","x","p","e","r","i","e","n","c","e","?">>,
      <<"Y","o","u","r"," ","l","a","s","t"," ","t","r","i","a","l"," ","h","a","d"," ","e","n","r","o","l","l","m","e","n","t"," ","d","e","l","a","y","s","."," ","C","o","n","v","i","n","c","e"," ","m","e"," ","t","h","a","t"," ","w","o","n","'","t"," ","h","a","p","p","e","n"," ","h","e","r","e",".">>,
      <<"W","h","a","t","'","s"," ","t","h","e"," ","b","i","g","g","e","s","t"," ","m","i","s","t","a","k","e"," ","y","o","u","'","v","e"," ","m","a","d","e"," ","i","n"," ","c","l","i","n","i","c","a","l"," ","o","p","e","r","a","t","i","o","n","s","?"," ","D","o","n","'","t"," ","g","i","v","e"," ","m","e"," ","a"," ","h","u","m","b","l","e"," ","b","r","a","g",".">>,
      <<"T","h","a","t","'","s"," ","i","n","t","e","r","e","s","t","i","n","g"," ","<emdash>"," ","b","u","t"," ","w","h","a","t"," ","r","e","a","l","l","y"," ","w","e","n","t"," ","w","r","o","n","g","?">>,
      <<"W","h","y"," ","w","a","s","n","'","t"," ","t","h","a","t"," ","y","o","u","r"," ","f","a","u","l","t","?">>,
      <<"W","h","a","t"," ","w","o","u","l","d"," ","y","o","u"," ","d","o"," ","d","i","f","f","e","r","e","n","t","l","y"," ","i","f"," ","y","o","u"," ","c","o","u","l","d"," ","g","o"," ","b","a","c","k","?">>,
      <<"I","n"," ","3","0"," ","s","e","c","o","n","d","s",","," ","w","h","y"," ","T","a","i","h","o","?">>,
      <<"W","h","a","t"," ","i","f"," ","I"," ","t","o","l","d"," ","y","o","u"," ","t","h","i","s"," ","r","o","l","e"," ","i","s"," ","8","0","%"," ","f","i","r","e","f","i","g","h","t","i","n","g","?">>,
      <<"A"," ","p","a","t","i","e","n","t"," ","s","a","f","e","t","y"," ","s","i","g","n","a","l"," ","e","m","e","r","g","e","s"," ","m","i","d","-","t","r","i","a","l","."," ","W","a","l","k"," ","m","e"," ","t","h","r","o","u","g","h"," ","y","o","u","r"," ","f","i","r","s","t"," ","h","o","u","r",".">>,
      <<"Y","o","u","r"," ","P","I"," ","w","a","n","t","s"," ","t","o"," ","d","e","v","i","a","t","e"," ","f","r","o","m"," ","p","r","o","t","o","c","o","l"," ","f","o","r"," ","a"," ","s","i","n","g","l","e"," ","p","a","t","i","e","n","t","."," ","W","h","a","t"," ","d","o"," ","y","o","u"," ","d","o","?">>>>

ALIGNMENT_QUESTIONS ==
    <<<<"W","h","y"," ","T","a","i","h","o"," ","O","n","c","o","l","o","g","y"," ","s","p","e","c","i","f","i","c","a","l","l","y","?">>,
      <<"W","h","a","t"," ","d","o","e","s"," ","'","P","e","o","p","l","e"," ","f","i","r","s","t","'"," ","m","e","a","n"," ","t","o"," ","y","o","u"," ","i","n"," ","c","l","i","n","i","c","a","l"," ","o","p","e","r","a","t","i","o","n","s","?">>,
      <<"H","o","w"," ","d","o"," ","y","o","u"," ","e","n","s","u","r","e"," ","a","l","i","g","n","m","e","n","t"," ","w","h","e","n"," ","w","o","r","k","i","n","g"," ","w","i","t","h"," ","g","l","o","b","a","l"," ","t","e","a","m","s"," ","a","c","r","o","s","s"," ","t","i","m","e"," ","z","o","n","e","s","?">>,
      <<"T","e","l","l"," ","m","e"," ","a","b","o","u","t"," ","a"," ","t","i","m","e"," ","w","h","e","n"," ","y","o","u"," ","h","a","d"," ","t","o"," ","a","l","i","g","n"," ","s","t","a","k","e","h","o","l","d","e","r","s"," ","w","i","t","h"," ","c","o","m","p","e","t","i","n","g"," ","p","r","i","o","r","i","t","i","e","s",".">>,
      <<"H","o","w"," ","d","o"," ","y","o","u"," ","b","a","l","a","n","c","e"," ","s","p","o","n","s","o","r"," ","e","x","p","e","c","t","a","t","i","o","n","s"," ","w","i","t","h"," ","s","i","t","e"," ","c","a","p","a","b","i","l","i","t","i","e","s","?">>,
      <<"W","h","a","t","'","s"," ","y","o","u","r"," ","a","p","p","r","o","a","c","h"," ","w","h","e","n"," ","a"," ","C","R","O","'","s"," ","p","r","i","o","r","i","t","i","e","s"," ","d","o","n","'","t"," ","a","l","i","g","n"," ","w","i","t","h"," ","y","o","u","r","s","?">>>>

CRO_MANAGEMENT_QUESTIONS ==
    <<<<"W","a","l","k"," ","m","e"," ","t","h","r","o","u","g","h"," ","h","o","w"," ","y","o","u"," ","s","e","t"," ","u","p"," ","C","R","O"," ","o","v","e","r","s","i","g","h","t"," ","f","r","o","m"," ","d","a","y"," ","o","n","e",".">>,
      <<"H","o","w"," ","d","o"," ","y","o","u"," ","h","a","n","d","l","e"," ","a"," ","C","R","O"," ","t","h","a","t","'","s"," ","m","e","e","t","i","n","g"," ","m","e","t","r","i","c","s"," ","b","u","t"," ","t","h","e"," ","q","u","a","l","i","t","y"," ","i","s"," ","s","u","f","f","e","r","i","n","g","?">>,
      <<"Y","o","u","r"," ","C","R","O"," ","s","a","y","s"," ","t","h","e","y"," ","n","e","e","d"," ","m","o","r","e"," ","b","u","d","g","e","t"," ","t","o"," ","h","i","t"," ","t","i","m","e","l","i","n","e","s","."," ","H","o","w"," ","d","o"," ","y","o","u"," ","r","e","s","p","o","n","d","?">>,
      <<"D","e","s","c","r","i","b","e"," ","y","o","u","r"," ","a","p","p","r","o","a","c","h"," ","t","o"," ","C","R","O"," ","p","e","r","f","o","r","m","a","n","c","e"," ","r","e","v","i","e","w","s",".">>,
      <<"H","o","w"," ","d","o"," ","y","o","u"," ","m","a","i","n","t","a","i","n"," ","v","i","s","i","b","i","l","i","t","y"," ","i","n","t","o"," ","C","R","O"," ","a","c","t","i","v","i","t","i","e","s"," ","w","i","t","h","o","u","t"," ","m","i","c","r","o","m","a","n","a","g","i","n","g","?">>>>

BEHAVIORAL_QUESTIONS ==
    <<<<"T","e","l","l"," ","m","e"," ","a","b","o","u","t"," ","a"," ","t","i","m","e"," ","y","o","u"," ","h","a","d"," ","t","o"," ","d","e","l","i","v","e","r"," ","d","i","f","f","i","c","u","l","t"," ","n","e","w","s"," ","t","o"," ","l","e","a","d","e","r","s","h","i","p",".">>,
      <<"D","e","s","c","r","i","b","e"," ","a"," ","s","i","t","u","a","t","i","o","n"," ","w","h","e","r","e"," ","y","o","u"," ","h","a","d"," ","t","o"," ","m","a","k","e"," ","a"," ","d","e","c","i","s","i","o","n"," ","w","i","t","h"," ","i","n","c","o","m","p","l","e","t","e"," ","i","n","f","o","r","m","a","t","i","o","n",".">>,
      <<"G","i","v","e"," ","m","e"," ","a","n"," ","e","x","a","m","p","l","e"," ","o","f"," ","w","h","e","n"," ","y","o","u"," ","i","d","e","n","t","i","f","i","e","d"," ","a"," ","r","i","s","k"," ","b","e","f","o","r","e"," ","i","t"," ","b","e","c","a","m","e"," ","a"," ","p","r","o","b","l","e","m",".">>,
      <<"T","e","l","l"," ","m","e"," ","a","b","o","u","t"," ","a"," ","c","o","n","f","l","i","c","t"," ","w","i","t","h"," ","a"," ","v","e","n","d","o","r"," ","a","n","d"," ","h","o","w"," ","y","o","u"," ","r","e","s","o","l","v","e","d"," ","i","t",".">>,
      <<"D","e","s","c","r","i","b","e"," ","a"," ","t","i","m","e"," ","y","o","u"," ","h","a","d"," ","t","o"," ","i","n","f","l","u","e","n","c","e"," ","w","i","t","h","o","u","t"," ","a","u","t","h","o","r","i","t","y",".">>>>

MOTIVATION_QUESTIONS ==
    <<<<"W","h","y"," ","c","l","i","n","i","c","a","l"," ","o","p","e","r","a","t","i","o","n","s","?"," ","W","h","y"," ","n","o","t"," ","s","t","a","y"," ","o","n"," ","t","h","e"," ","C","R","O"," ","s","i","d","e","?">>,
      <<"W","h","e","r","e"," ","d","o"," ","y","o","u"," ","s","e","e"," ","y","o","u","r","s","e","l","f"," ","i","n"," ","5"," ","y","e","a","r","s","?">>,
      <<"W","h","a","t"," ","d","r","i","v","e","s"," ","y","o","u"," ","i","n"," ","t","h","i","s"," ","w","o","r","k","?">>,
      <<"W","h","a","t","'","s"," ","t","h","e"," ","m","o","s","t"," ","m","e","a","n","i","n","g","f","u","l"," ","t","r","i","a","l"," ","y","o","u","'","v","e"," ","w","o","r","k","e","d"," ","o","n"," ","a","n","d"," ","w","h","y","?">>>>

QUESTION_BANKS ==
    [curveball |-> CURVEBALL_QUESTIONS,
     alignment |-> ALIGNMENT_QUESTIONS,
     cro_management |-> CRO_MANAGEMENT_QUESTIONS,
     behavioral |-> BEHAVIORAL_QUESTIONS,
     motivation |-> MOTIVATION_QUESTIONS]

\* random.choice(seq): any element.
Choices(seq) == {seq[k] : k \in 1..Len(seq)}

---------------------------------------------------------------------------
(* get_session and create_session, index.py:256-278                        *)

\* Variant: an id that is not stored is looked up as some stored session.
get_session_or_any(session_id) ==
    IF session_id \in DOMAIN SESSIONS THEN SESSIONS[session_id]
    ELSE IF DOMAIN SESSIONS # {}
    THEN SESSIONS[CHOOSE id \in DOMAIN SESSIONS : TRUE]
    ELSE NoneDict

get_session(session_id) ==
    IF session_id \in DOMAIN SESSIONS THEN SESSIONS[session_id] ELSE NoneDict

\* x or default, for a str argument.
OrDefault(x, default) == IF Truthy(x) THEN x ELSE default

\* Variant: an empty role or company is stored as given.
NewSession_keeps_empty(session_id, role, company, interviewer_type) ==
    [session_id |-> session_id,
     role |-> IF role # NoneStr THEN role ELSE <<"S","e","n","i","o","r"," ","S","t","u","d","y"," ","M","a","n","a","g","e","r">>,
     company |-> IF company # NoneStr THEN company ELSE <<"T","a","i","h","o"," ","O","n","c","o","l","o","g","y">>,
     interviewer_type |->
        IF interviewer_type \notin {None, ""}
        THEN interviewer_type ELSE "hiring_manager",
     question_type |-> "curveball",
     current_step |-> "identify_principle",
     current_question |-> <<>>,
     anchors |-> <<>>,
     principle |-> <<>>,
     history |-> <<>>,
     resume |-> NoneStr,
     job_description |-> NoneStr,
     parsed_resume |-> NoneDict,
     parsed_job_description |-> NoneDict]

NewSession(session_id, role, company, interviewer_type) ==
    [session_id |-> session_id,
     role |-> OrDefault(role, <<"S","e","n","i","o","r"," ","S","t","u","d","y"," ","M","a","n","a","g","e","r">>),
     company |-> OrDefault(company, <<"T","a","i","h","o"," ","O","n","c","o","l","o","g","y">>),
     interviewer_type |->
        IF interviewer_type \notin {None, ""}
        THEN interviewer_type ELSE "hiring_manager",
     question_type |-> "curveball",
     current_step |-> "identify_principle",
     current_question |-> <<>>,
     anchors |-> <<>>,
     principle |-> <<>>,
     history |-> <<>>,
     resume |-> NoneStr,
     job_description |-> NoneStr,
     parsed_resume |-> NoneDict,
     parsed_job_description |-> NoneDict]

\* Variant: the session is written under every stored id.
Store_under_every_id(session_id, session) ==
    [id \in DOMAIN SESSIONS \cup {session_id} |-> session]

\* SESSIONS[session_id] = session
Store(session_id, session) ==
    [id \in DOMAIN SESSIONS \cup {session_id} |->
        IF id = session_id THEN session ELSE SESSIONS[id]]

---------------------------------------------------------------------------
(* generate_personalized_questions, index.py:458-492                       *)

ExperienceQuestions == 3
ExperienceMinLen == 20
ExperienceShown == 100
RequirementQuestions == 5
ResponsibilityQuestions == 3
QualificationsShown == 3

\* d.get(key) or the given default, for a parsed document that may be None.
Field(d, key, default) == IF key \in DOMAIN d THEN d[key] ELSE default

\* Variant: an entry of exactly 20 characters gets a question too.
RECURSIVE ExperienceQs_at_least(_)
ExperienceQs_at_least(exps) ==
    IF exps = <<>> THEN <<>>
    ELSE (IF Len(Head(exps)) >= ExperienceMinLen
          THEN <<<<"T","e","l","l"," ","m","e"," ","m","o","r","e"," ","a","b","o","u","t"," ","y","o","u","r"," ","e","x","p","e","r","i","e","n","c","e"," ","w","i","t","h",":"," ">>
                 \o Take(Head(exps), ExperienceShown) \o <<".",".",".">>>>
          ELSE <<>>)
         \o ExperienceQs_at_least(Tail(exps))

RECURSIVE ExperienceQs(_)
ExperienceQs(exps) ==
    IF exps = <<>> THEN <<>>
    ELSE (IF Len(Head(exps)) > ExperienceMinLen
          THEN <<<<"T","e","l","l"," ","m","e"," ","m","o","r","e"," ","a","b","o","u","t"," ","y","o","u","r"," ","e","x","p","e","r","i","e","n","c","e"," ","w","i","t","h",":"," ">>
                 \o Take(Head(exps), ExperienceShown) \o <<".",".",".">>>>
          ELSE <<>>)
         \o ExperienceQs(Tail(exps))

\* Variant: the skills are compared as written, not lowercased.
Matching_as_written(req, skills) ==
    \E k \in 1..Len(skills) : Contains(Lower(req), skills[k])

\* any(skill in req_lower for skill in resume_skills)
Matching(req, skills) ==
    \E k \in 1..Len(skills) : Contains(Lower(req), Lower(skills[k]))

RequirementQ(req, skills) ==
    IF Matching(req, skills)
    THEN <<"Y","o","u"," ","m","e","n","t","i","o","n","e","d"," ","r","e","l","e","v","a","n","t"," ","e","x","p","e","r","i","e","n","c","e","."," ","C","a","n"," ","y","o","u"," ","e","l","a","b","o","r","a","t","e"," ","o","n",":"," ">> \o req
    ELSE <<"T","h","i","s"," ","r","o","l","e"," ","r","e","q","u","i","r","e","s",":"," ">> \o req
         \o <<"."," ","H","o","w"," ","w","o","u","l","d"," ","y","o","u"," ","a","p","p","r","o","a","c","h"," ","t","h","i","s","?">>

ResponsibilityQ(resp) == <<"H","o","w"," ","w","o","u","l","d"," ","y","o","u"," ","h","a","n","d","l","e",":"," ">> \o resp

\* Variant: every qualification is listed.
QualificationsQ_all(quals) ==
    <<"W","h","a","t"," ","m","a","k","e","s"," ","y","o","u"," ","q","u","a","l","i","f","i","e","d"," ","f","o","r"," ","t","h","i","s"," ","r","o","l","e"," ","g","i","v","e","n"," ","t","h","e"," ","r","e","q","u","i","r","e","m","e","n","t","s",":"," ">>
    \o Join(<<","," ">>, quals) \o <<"?">>

QualificationsQ(quals) ==
    <<"W","h","a","t"," ","m","a","k","e","s"," ","y","o","u"," ","q","u","a","l","i","f","i","e","d"," ","f","o","r"," ","t","h","i","s"," ","r","o","l","e"," ","g","i","v","e","n"," ","t","h","e"," ","r","e","q","u","i","r","e","m","e","n","t","s",":"," ">>
    \o Join(<<","," ">>, Take(quals, QualificationsShown)) \o <<"?">>

\* Variant: the responsibility questions come before the requirement
\* questions.
generate_personalized_questions_duties_first(session) ==
    LET resume == session.parsed_resume
        jd == session.parsed_job_description
        skills == Field(resume, "skills", <<>>)
        reqs == Take(Field(jd, "requirements", <<>>), RequirementQuestions)
        resps == Take(Field(jd, "responsibilities", <<>>),
                      ResponsibilityQuestions)
        quals == Field(jd, "qualifications", <<>>)
        questions ==
            ExperienceQs(Take(Field(resume, "experience", <<>>),
                              ExperienceQuestions))
            \o [k \in 1..Len(resps) |-> ResponsibilityQ(resps[k])]
            \o [k \in 1..Len(reqs) |-> RequirementQ(reqs[k], skills)]
            \o (IF quals # <<>> THEN <<QualificationsQ(quals)>> ELSE <<>>)
    IN IF questions # <<>> THEN questions ELSE NoneList

\* Variant: the list is returned even when it is empty.
generate_personalized_questions_or_empty(session) ==
    LET resume == session.parsed_resume
        jd == session.parsed_job_description
        skills == Field(resume, "skills", <<>>)
        reqs == Take(Field(jd, "requirements", <<>>), RequirementQuestions)
        resps == Take(Field(jd, "responsibilities", <<>>),
                      ResponsibilityQuestions)
        quals == Field(jd, "qualifications", <<>>)
    IN ExperienceQs(Take(Field(resume, "experience", <<>>),
                         ExperienceQuestions))
       \o [k \in 1..Len(reqs) |-> RequirementQ(reqs[k], skills)]
       \o [k \in 1..Len(resps) |-> ResponsibilityQ(resps[k])]
       \o (IF quals # <<>> THEN <<QualificationsQ(quals)>> ELSE <<>>)

generate_personalized_questions(session) ==
    LET resume == session.parsed_resume
        jd == session.parsed_job_description
        skills == Field(resume, "skills", <<>>)
        reqs == Take(Field(jd, "requirements", <<>>), RequirementQuestions)
        resps == Take(Field(jd, "responsibilities", <<>>),
                      ResponsibilityQuestions)
        quals == Field(jd, "qualifications", <<>>)
        questions ==
            ExperienceQs(Take(Field(resume, "experience", <<>>),
                              ExperienceQuestions))
            \o [k \in 1..Len(reqs) |-> RequirementQ(reqs[k], skills)]
            \o [k \in 1..Len(resps) |-> ResponsibilityQ(resps[k])]
            \o (IF quals # <<>> THEN <<QualificationsQ(quals)>> ELSE <<>>)
    IN IF questions # <<>> THEN questions ELSE NoneList

---------------------------------------------------------------------------
(* handler.do_POST, index.py:633-900                                       *)

\* Variant: the terminal pseudo-state is a seventh step.
steps_with_complete ==
    <<"identify_principle", "create_anchors", "guided_recall",
      "delivery_practice", "compression", "random_entry", "complete">>

steps ==
    <<"identify_principle", "create_anchors", "guided_recall",
      "delivery_practice", "compression", "random_entry">>

\* What the client sends.
CreateIds == {"s1"}
SessionIds == CreateIds
RoleInputs == {NoneStr}
QuestionTypeInputs == {"motivation", "warmup"}
ResponseInputs == {<<>>, <<"I"," ","l","e","d"," ","i","t",".">>}
ReplyTexts == {<<"S","h","o","r","t","e","r",".">>}
AnchorInputs == {<<>>, <<<<"M","o","m","e","n","t">>, <<"W","i","n">>>>}
PrincipleInputs == {<<>>, <<"O","w","n"," ","i","t">>}
ResumeInputs ==
    {<<>>,
     <<"S","k","i","l","l","s"," ","a","n","d"," ","E","x","p","e","r","i","e","n","c","e","\n","P","y","t","h","o","n",","," ","G","o">>}
JDInputs ==
    {<<>>,
     <<"Q","A"," ","L","e","a","d","\n","R","e","q","u","i","r","e","d"," ","S","k","i","l","l","s","\n"," ","5"," ","y","e","a","r","s"," ","P","y","t","h","o","n"," ">>}
MaxHistory == 2

Reply(status, error, current_step, question) ==
    [status |-> status, error |-> error, current_step |-> current_step,
     question |-> question]

NotFound == Reply(400, "Session not found", None, NoneStr)

\* Before the first request.
NoRequest == [path |-> None, session_id |-> None]
NoResponse == Reply(0, None, None, NoneStr)

\* An exception leaves do_POST: nothing is sent.
Raised(exception) == Reply(0, exception, None, NoneStr)

\* No parser call is being traced.
Idle ==
    /\ fn = None /\ text = NoneStr /\ lines = <<>> /\ i = 0
    /\ frame = NoneDict /\ pc = "idle"

Init ==
    /\ SESSIONS = <<>>
    /\ request = NoRequest
    /\ response = NoResponse
    /\ Idle

\* index.py:645-661
\* Variant: a session already stored under the id is kept.
CreateSession_keeps_stored(session_id, role) ==
    /\ request' = [path |-> "/api/sessions", session_id |-> session_id]
    /\ SESSIONS' = IF session_id \in DOMAIN SESSIONS THEN SESSIONS
                   ELSE Store(session_id,
                              NewSession(session_id, role, NoneStr, None))
    /\ response' = Reply(200, None, None, NoneStr)
    /\ UNCHANGED parserVars

CreateSession(session_id, role) ==
    /\ request' = [path |-> "/api/sessions", session_id |-> session_id]
    /\ SESSIONS' = Store(session_id, NewSession(session_id, role, NoneStr, None))
    /\ response' = Reply(200, None, None, NoneStr)
    /\ UNCHANGED parserVars

\* Variant: the principle of the previous question is kept.
IssueQuestion_keeps_principle(session, question_type, question) ==
    [session EXCEPT !.question_type = question_type,
                    !.current_question = question,
                    !.current_step = "identify_principle",
                    !.anchors = <<>>]

\* Variant: the type of the previous question is kept.
IssueQuestion_keeps_type(session, question_type, question) ==
    [session EXCEPT !.current_question = question,
                    !.current_step = "identify_principle",
                    !.anchors = <<>>,
                    !.principle = <<>>]

\* Variant: a new question starts a new conversation.
IssueQuestion_clears_history(session, question_type, question) ==
    [session EXCEPT !.question_type = question_type,
                    !.current_question = question,
                    !.current_step = "identify_principle",
                    !.anchors = <<>>,
                    !.principle = <<>>,
                    !.history = <<>>]

\* index.py:673-680: the session after a question of the bank is chosen.
IssueQuestion(session, question_type, question) ==
    [session EXCEPT !.question_type = question_type,
                    !.current_question = question,
                    !.current_step = "identify_principle",
                    !.anchors = <<>>,
                    !.principle = <<>>]

\* index.py:664-687
Question(session_id, question_type) ==
    /\ request' = [path |-> "/api/question", session_id |-> session_id]
    /\ LET session == get_session(session_id) IN
       IF session = NoneDict
       THEN response' = NotFound /\ UNCHANGED SESSIONS
       ELSE IF question_type \notin QuestionType
       THEN \* QuestionType(question_type) raises ValueError
            response' = Raised("ValueError") /\ UNCHANGED SESSIONS
       ELSE \E question \in Choices(QUESTION_BANKS[question_type]) :
            /\ SESSIONS' = Store(session_id,
                    IssueQuestion(session, question_type, question))
            /\ response' = Reply(200, None, "identify_principle", question)
    /\ UNCHANGED parserVars

\* The context f-string of index.py:703-710: its fixed parts and the values
\* it interpolates.
Context(session, reply) ==
    <<"CURRENT STEP: ", session.current_step,
      "QUESTION: ", session.current_question,
      "CANDIDATE RESPONSE: ", reply>>

HistoryWindow == 10

\* index.py:566-567: the messages handed to the collaborator.
Messages(session, user_message) ==
    LET h == session.history
        from == IF Len(h) > HistoryWindow THEN Len(h) - HistoryWindow + 1 ELSE 1
    IN Append(SubSeq(h, from, Len(h)),
              [role |-> "user", content |-> user_message])

\* Variant: the message list is the history itself, so the append lands in
\* the session.
Built_in_place(session, user_message) ==
    [session |-> [session EXCEPT !.history =
                     Append(@, [role |-> "user", content |-> user_message])],
     messages |-> Append(session.history,
                         [role |-> "user", content |-> user_message])]

\* index.py:566-567: the slice is a new list, so the session is as it was
\* once the message list is built.
Built(session, user_message) ==
    [session |-> session, messages |-> Messages(session, user_message)]

\* Variant: a coached response also moves the session to the next step.
Record_advances(session, user_message, assistant_message) ==
    [session EXCEPT
        !.history = @ \o <<[role |-> "user", content |-> user_message],
                           [role |-> "assistant",
                            content |-> assistant_message]>>,
        !.current_step =
            IF @ = "identify_principle" THEN "create_anchors" ELSE @]

\* Variant: only the user message is recorded.
Record_user_only(session, user_message, assistant_message) ==
    [session EXCEPT !.history =
        Append(@, [role |-> "user", content |-> user_message])]

\* index.py:578-580: get_coaching_response's update of the history.
Record(session, user_message, assistant_message) ==
    [session EXCEPT !.history =
        @ \o <<[role |-> "user", content |-> user_message],
               [role |-> "assistant", content |-> assistant_message]>>]

\* Variant: the user message is put into the history before the
\* collaborator is called, so it stays there when the call fails.
Failed_keeps_user_message(session, user_message) ==
    [session EXCEPT !.history =
        Append(@, [role |-> "user", content |-> user_message])]

\* index.py:566-574: the session when client.messages.create raises; the
\* only append made until then went to the sliced copy of the history.
Failed(session, user_message) == session

\* index.py:690-718 and get_coaching_response, index.py:541-582, on
\* histories of at most limit entries.
RespondUpTo(session_id, reply, limit) ==
    /\ request' = [path |-> "/api/respond", session_id |-> session_id]
    /\ LET session == get_session(session_id) IN
       IF session = NoneDict
       THEN response' = NotFound /\ UNCHANGED SESSIONS
       ELSE IF reply = <<>>
       THEN /\ response' = Reply(400, "Response is required", None, NoneStr)
            /\ UNCHANGED SESSIONS
       ELSE \/ \* client.messages.create raises
               /\ response' = Raised("UpstreamError")
               /\ SESSIONS' = Store(session_id,
                      Failed(session, Context(session, reply)))
            \/ \E assistant_message \in ReplyTexts :
               /\ Len(session.history) + 2 <= limit
               /\ SESSIONS' = Store(session_id,
                      Record(session, Context(session, reply),
                             assistant_message))
               /\ response' = Reply(200, None, session.current_step, NoneStr)
    /\ UNCHANGED parserVars

\* index.py:690-718 and get_coaching_response, index.py:541-582
Respond(session_id, reply) == RespondUpTo(session_id, reply, MaxHistory)

\* Variant: the 1-based position is used as the 0-based index.
current_idx_one_based(session) ==
    IF \E k \in 1..Len(steps) : steps[k] = session.current_step
    THEN CHOOSE k \in 1..Len(steps) : steps[k] = session.current_step
    ELSE 0

\* Variant: an unknown step is looked up as the last index.
current_idx_unknown_last(session) ==
    IF \E k \in 1..Len(steps) : steps[k] = session.current_step
    THEN (CHOOSE k \in 1..Len(steps) : steps[k] = session.current_step) - 1
    ELSE Len(steps) - 1

\* index.py:729-731
current_idx(session) ==
    IF \E k \in 1..Len(steps) : steps[k] = session.current_step
    THEN (CHOOSE k \in 1..Len(steps) : steps[k] = session.current_step) - 1
    ELSE 0

\* Variant: the last step wraps around to the first.
Confirmed_wraps(session) ==
    LET next == steps[((current_idx(session) + 1) % Len(steps)) + 1] IN
    [session |-> [session EXCEPT !.current_step = next], current_step |-> next]

\* index.py:733-754: the session after the confirm and the step reported.
Confirmed(session) ==
    IF current_idx(session) < Len(steps) - 1
    THEN LET next == steps[current_idx(session) + 2] IN
         [session |-> [session EXCEPT !.current_step = next],
          current_step |-> next]
    ELSE [session |-> session, current_step |-> "complete"]

\* index.py:721-754
Confirm(session_id) ==
    /\ request' = [path |-> "/api/confirm", session_id |-> session_id]
    /\ LET session == get_session(session_id) IN
       IF session = NoneDict
       THEN response' = NotFound /\ UNCHANGED SESSIONS
       ELSE /\ SESSIONS' = Store(session_id, Confirmed(session).session)
            /\ response' = Reply(200, None, Confirmed(session).current_step,
                                 NoneStr)
    /\ UNCHANGED parserVars

\* index.py:757-773
Interrupt(session_id) ==
    /\ request' = [path |-> "/api/interrupt", session_id |-> session_id]
    /\ IF get_session(session_id) = NoneDict
       THEN response' = NotFound
       ELSE response' = Reply(200, None, None, NoneStr)
    /\ UNCHANGED <<SESSIONS, parserVars>>

\* index.py:776-790
Anchors(session_id, anchors) ==
    /\ request' = [path |-> "/api/anchors", session_id |-> session_id]
    /\ LET session == get_session(session_id) IN
       IF session = NoneDict
       THEN response' = NotFound /\ UNCHANGED SESSIONS
       ELSE /\ SESSIONS' = Store(session_id,
                                 [session EXCEPT !.anchors = anchors])
            /\ response' = Reply(200, None, None, NoneStr)
    /\ UNCHANGED parserVars

\* index.py:793-807
Principle(session_id, principle) ==
    /\ request' = [path |-> "/api/principle", session_id |-> session_id]
    /\ LET session == get_session(session_id) IN
       IF session = NoneDict
       THEN response' = NotFound /\ UNCHANGED SESSIONS
       ELSE /\ SESSIONS' = Store(session_id,
                                 [session EXCEPT !.principle = principle])
            /\ response' = Reply(200, None, None, NoneStr)
    /\ UNCHANGED parserVars

\* More documents to upload: a resume with an experience entry to ask
\* about, a job description that starts with a header and so has no title,
\* and one that is a title and no more.
MoreResumes == {<<"E","x","p","e","r","i","e","n","c","e",":","\n","L","e","d"," ","a"," ","t","e","a","m"," ","o","f"," ","f","i","v","e"," ","e","n","g","i","n","e","e","r","s">>}
MoreJDs == {<<"R","e","s","p","o","n","s","i","b","i","l","i","t","i","e","s",":","\n","T","e","s","t","i","n","g">>, <<"T","e","s","t","e","r">>}

\* parse_resume and parse_job_description on the documents the client
\* uploads, computed once.
ParsedResumes == [t \in ResumeInputs \cup MoreResumes |-> parse_resume(t)]
ParsedJDs == [t \in JDInputs \cup MoreJDs |-> parse_job_description(t)]

\* Variant: the text is stored and the parse is left for later.
WithResume_raw_only(session, resume_text) ==
    [session EXCEPT !.resume = resume_text]

\* index.py:823-824: the session after a resume is stored.
WithResume(session, resume_text) ==
    [session EXCEPT !.resume = resume_text,
                    !.parsed_resume = ParsedResumes[resume_text]]

\* index.py:810-831
Resume(session_id, resume_text) ==
    /\ request' = [path |-> "/api/resume", session_id |-> session_id]
    /\ LET session == get_session(session_id) IN
       IF session = NoneDict
       THEN response' = NotFound /\ UNCHANGED SESSIONS
       ELSE IF ~Truthy(resume_text)
       THEN /\ response' = Reply(400, "Resume text is required", None, NoneStr)
            /\ UNCHANGED SESSIONS
       ELSE /\ SESSIONS' = Store(session_id,
                                 WithResume(session, resume_text))
            /\ response' = Reply(200, None, None, NoneStr)
    /\ UNCHANGED parserVars

\* Variant: the role is set to the parsed title whatever it is.
WithJobDescription_sets_any_title(session, jd_text) ==
    LET parsed == ParsedJDs[jd_text] IN
    [session EXCEPT !.job_description = jd_text,
                    !.parsed_job_description = parsed,
                    !.role = parsed.title]

\* index.py:847-852: the session after a job description is stored.
WithJobDescription(session, jd_text) ==
    LET parsed == ParsedJDs[jd_text] IN
    [session EXCEPT !.job_description = jd_text,
                    !.parsed_job_description = parsed,
                    !.role = IF parsed.title # <<>> THEN parsed.title ELSE @]

\* index.py:834-859
JobDescription(session_id, jd_text) ==
    /\ request' = [path |-> "/api/job-description", session_id |-> session_id]
    /\ LET session == get_session(session_id) IN
       IF session = NoneDict
       THEN response' = NotFound /\ UNCHANGED SESSIONS
       ELSE IF ~Truthy(jd_text)
       THEN /\ response' = Reply(400, "Job description is required", None,
                                 NoneStr)
            /\ UNCHANGED SESSIONS
       ELSE /\ SESSIONS' = Store(session_id,
                                 WithJobDescription(session, jd_text))
            /\ response' = Reply(200, None, None, NoneStr)
    /\ UNCHANGED parserVars

\* Variant: without a personalized question the session is reset as for a
\* new question, which is left empty.
Declined_resets(session) ==
    [session EXCEPT !.current_question = <<>>,
                    !.current_step = "identify_principle",
                    !.anchors = <<>>,
                    !.principle = <<>>]

\* index.py:892-897: the session when no question was generated; the branch
\* only sends a message.
Declined(session) == session

\* index.py:862-897
PersonalizedQuestion(session_id) ==
    /\ request' = [path |-> "/api/personalized-question",
                   session_id |-> session_id]
    /\ LET session == get_session(session_id) IN
       IF session = NoneDict
       THEN response' = NotFound /\ UNCHANGED SESSIONS
       ELSE IF /\ session.parsed_resume = NoneDict
               /\ session.parsed_job_description = NoneDict
       THEN /\ response' = Reply(400,
                "Please upload a resume or job description first", None,
                NoneStr)
            /\ UNCHANGED SESSIONS
       ELSE LET personalized_questions ==
                    generate_personalized_questions(session) IN
            IF personalized_questions # NoneList
            THEN \E question \in Choices(personalized_questions) :
                 /\ SESSIONS' = Store(session_id,
                        IssueQuestion(session, "personalized", question))
                 /\ response' = Reply(200, None, "identify_principle",
                                      question)
            ELSE /\ response' = Reply(200, None, None, NoneStr)
                 /\ SESSIONS' = Store(session_id, Declined(session))
    /\ UNCHANGED parserVars

Next ==
    \/ \E session_id \in CreateIds, role \in RoleInputs :
           CreateSession(session_id, role)
    \/ \E session_id \in SessionIds, question_type \in QuestionTypeInputs :
           Question(session_id, question_type)
    \/ \E session_id \in SessionIds, reply \in ResponseInputs :
           Respond(session_id, reply)
    \/ \E session_id \in SessionIds : Confirm(session_id)
    \/ \E session_id \in SessionIds : Interrupt(session_id)
    \/ \E session_id \in SessionIds, anchors \in AnchorInputs :
           Anchors(session_id, anchors)
    \/ \E session_id \in SessionIds, principle \in PrincipleInputs :
           Principle(session_id, principle)
    \/ \E session_id \in SessionIds, resume_text \in ResumeInputs :
           Resume(session_id, resume_text)
    \/ \E session_id \in SessionIds, jd_text \in JDInputs :
           JobDescription(session_id, jd_text)
    \/ \E session_id \in SessionIds : PersonalizedQuestion(session_id)

Spec == Init /\ [][Next]_vars

---------------------------------------------------------------------------
(* The session table is a module-level dict: code outside the handler can  *)
(* write a session's fields, as the tests do with current_step             *)
(* (tests/test_api.py:230, 243).                                           *)

StepWrites == {"random_entry", "complete", "warmup"}

ExternalWrite(session_id, step) ==
    /\ session_id \in DOMAIN SESSIONS
    /\ SESSIONS[session_id].current_step # step
    /\ SESSIONS' = Store(session_id,
                         [SESSIONS[session_id] EXCEPT !.current_step = step])
    /\ request' = NoRequest
    /\ response' = NoResponse
    /\ UNCHANGED parserVars

NextExt ==
    \/ \E session_id \in CreateIds, role \in RoleInputs :
           CreateSession(session_id, role)
    \/ \E session_id \in CreateIds, step \in StepWrites :
           ExternalWrite(session_id, step)
    \/ \E session_id \in SessionIds, question_type \in QuestionTypeInputs :
           Question(session_id, question_type)
    \/ \E session_id \in SessionIds, reply \in ResponseInputs :
           Respond(session_id, reply)
    \/ \E session_id \in SessionIds : Confirm(session_id)

SpecExt == Init /\ [][NextExt]_vars

---------------------------------------------------------------------------
(* Requests for three session ids: "s1" and "s2" are created, "s0" never   *)
(* is. "s1" receives the requests for questions, steps and documents and   *)
(* empty responses, "s2" the responses the collaborator is called for, and *)
(* "s0" every request but the creation.                                    *)

UnknownIds == {"s0"}
StoredIds == {"s1", "s2"}
AskerIds == UnknownIds \cup {"s1"}

\* The question types asked for: two bank types and an unknown one.
AskedTypes == QuestionTypeInputs \cup {"behavioral"}

RespondRequests ==
    ((UnknownIds \cup {"s2"}) \X ResponseInputs) \cup {<<"s1", <<>>>>}

NextIds ==
    \/ \E session_id \in StoredIds, role \in RoleInputs :
           CreateSession(session_id, role)
    \/ \E session_id \in AskerIds, question_type \in AskedTypes :
           Question(session_id, question_type)
    \/ \E r \in RespondRequests : Respond(r[1], r[2])
    \/ \E session_id \in AskerIds : Confirm(session_id)
    \/ \E session_id \in AskerIds : Interrupt(session_id)
    \/ \E session_id \in AskerIds, anchors \in AnchorInputs :
           Anchors(session_id, anchors)
    \/ \E session_id \in AskerIds, principle \in PrincipleInputs :
           Principle(session_id, principle)
    \/ \E session_id \in AskerIds, resume_text \in ResumeInputs :
           Resume(session_id, resume_text)
    \/ \E session_id \in AskerIds, jd_text \in JDInputs :
           JobDescription(session_id, jd_text)
    \/ \E session_id \in AskerIds : PersonalizedQuestion(session_id)

SpecIds == Init /\ [][NextIds]_vars

---------------------------------------------------------------------------
(* The parsers run line by line on documents drawn from small pools.       *)

MaxLines == 4

ResumeLinePool ==
    {<<"S","k","i","l","l","s"," ","a","n","d"," ","E","x","p","e","r","i","e","n","c","e">>, <<"E","x","p","e","r","i","e","n","c","e",":">>, <<"E","d","u","c","a","t","i","o","n">>, <<"S","u","m","m","a","r","y">>,
     <<"P","y","t","h","o","n",","," ","G","o">>, <<" ","L","e","d"," ","t","e","a","m"," ">>, <<>>}

JDLinePool ==
    {<<"R","e","q","u","i","r","e","d"," ","S","k","i","l","l","s">>, <<"R","e","s","p","o","n","s","i","b","i","l","i","t","i","e","s",":">>, <<"Q","u","a","l","i","f","i","c","a","t","i","o","n","s">>,
     <<"A","b","o","u","t"," ","t","h","e"," ","C","o","m","p","a","n","y">>, <<"Q","A"," ","L","e","a","d">>, <<" ","5"," ","y","e","a","r","s"," ","P","y","t","h","o","n"," ">>, <<>>}

LineSeqs(pool) == UNION {[1..n -> pool] : n \in 1..MaxLines}

Documents(pool) ==
    {Join(<<"\n">>, ls) : ls \in LineSeqs(pool)} \cup {NoneStr, <<>>}

Repeat(s, n) == [k \in 1..(n * Len(s)) |-> s[((k - 1) % Len(s)) + 1]]

\* Resumes written out in full: the skill lists of the tests
\* (test_parsing.py:92-112), a line of fragments of every kind, and texts
\* without any header shorter and longer than the summary limit.
SkillResumes ==
    {<<"S","k","i","l","l","s",":","\n","P","y","t","h","o","n",","," ","J","a","v","a","S","c","r","i","p","t",","," ","R","e","a","c","t">>,
     <<"S","k","i","l","l","s",":","\n","<bullet>"," ","P","y","t","h","o","n"," ","<bullet>"," ","J","a","v","a","S","c","r","i","p","t">>,
     <<"\n","S","k","i","l","l","s",":","\n","<bullet>"," ","P","y","t","h","o","n"," ","<bullet>"," ","J","a","v","a","S","c","r","i","p","t"," ","<bullet>"," ","R","e","a","c","t","\n","<bullet>"," ","D","o","c","k","e","r"," ","<bullet>"," ","A","W","S","\n">>,
     <<"T","e","c","h","n","i","c","a","l"," ","S","k","i","l","l","s",":","\n","C",","," ","G","o"," ","|"," ","G","o"," ","<middot>"," ","R",",",","," ","x"," ",",","R","u","s","t","|","\n","\n"," ","C","+","+"," ","|"," ","a"," ","b"," ">>}

PlainResumes ==
    {<<"I"," ","a","m"," ","a"," ","s","k","i","l","l","e","d"," ","d","e","v","e","l","o","p","e","r",".">>,
     <<" ","\n"," ","I"," ","b","u","i","l","d"," ","t","h","i","n","g","s","."," ","\n">>,
     Repeat(<<"a","b">>, 499) \o <<"c">>,
     Repeat(<<"a","b">>, 500),
     Repeat(<<"a","b">>, 500) \o <<"c">>,
     <<" "," ">> \o Repeat(Repeat(<<"a","b"," ","c","d"," ">>, 50) \o <<"\n">>, 4) \o <<" ">>}

ResumeDocuments ==
    Documents(ResumeLinePool) \cup SkillResumes \cup PlainResumes

InitParse ==
    /\ SESSIONS = <<>>
    /\ request = NoRequest
    /\ response = NoResponse
    /\ \/ fn = "parse_resume" /\ text \in ResumeDocuments
       \/ fn = "parse_job_description" /\ text \in Documents(JDLinePool)
    /\ lines = <<>>
    /\ i = 0
    /\ frame = NoneDict
    /\ pc = "entry"

\* index.py:302-315
ParseResumeEntry ==
    /\ fn = "parse_resume" /\ pc = "entry"
    /\ frame' = ResumeEntry(text)
    /\ IF ~Truthy(text)
       THEN pc' = "done" /\ UNCHANGED lines
       ELSE pc' = "loop" /\ lines' = SplitLines(text)
    /\ UNCHANGED <<fn, text, i, apiVars>>

\* index.py:323-346
ParseResumeLine ==
    /\ fn = "parse_resume" /\ pc = "loop" /\ i < Len(lines)
    /\ frame' = ResumeLine(frame, lines[i + 1])
    /\ i' = i + 1
    /\ UNCHANGED <<fn, text, lines, pc, apiVars>>

\* index.py:348-350: the last section is saved.
ParseResumeSave ==
    /\ fn = "parse_resume" /\ pc = "loop" /\ i = Len(lines)
    /\ frame' = [frame EXCEPT !.parsed = ResumeFlush(frame)]
    /\ pc' = "saved"
    /\ UNCHANGED <<fn, text, lines, i, apiVars>>

\* index.py:352-356: the summary fallback and the return.
ParseResumeExit ==
    /\ fn = "parse_resume" /\ pc = "saved"
    /\ frame' = [frame EXCEPT !.parsed = ResumeFallback(@)]
    /\ pc' = "done"
    /\ UNCHANGED <<fn, text, lines, i, apiVars>>

\* index.py:380-395
ParseJDEntry ==
    /\ fn = "parse_job_description" /\ pc = "entry"
    /\ frame' = JDEntry(text)
    /\ IF ~Truthy(text)
       THEN pc' = "done" /\ UNCHANGED lines
       ELSE pc' = "loop" /\ lines' = SplitLines(text)
    /\ UNCHANGED <<fn, text, i, apiVars>>

\* index.py:403-437
ParseJDLine ==
    /\ fn = "parse_job_description" /\ pc = "loop" /\ i < Len(lines)
    /\ frame' = JDLine(frame, lines[i + 1])
    /\ i' = i + 1
    /\ UNCHANGED <<fn, text, lines, pc, apiVars>>

\* index.py:439-443
ParseJDExit ==
    /\ fn = "parse_job_description" /\ pc = "loop" /\ i = Len(lines)
    /\ frame' = JDExit(frame)
    /\ pc' = "done"
    /\ UNCHANGED <<fn, text, lines, i, apiVars>>

NextParse ==
    \/ ParseResumeEntry
    \/ ParseResumeLine
    \/ ParseResumeSave
    \/ ParseResumeExit
    \/ ParseJDEntry
    \/ ParseJDLine
    \/ ParseJDExit

SpecParse == InitParse /\ [][NextParse]_vars

\* The result the parser returns agrees with the function of its argument.
ParseAgrees ==
    pc = "done" =>
        frame.parsed = IF fn = "parse_resume" THEN parse_resume(text)
                       ELSE parse_job_description(text)

---------------------------------------------------------------------------
(* Single calls of _is_section_header and generate_personalized_questions  *)
(* on arguments drawn from small sets: fn is the function called, text the *)
(* line classified, frame the other argument and, after the return, the    *)
(* result.                                                                 *)

\* The vocabularies the two parsers pass to _is_section_header.
Vocabularies ==
    {skill_headers, exp_headers, edu_headers, summary_headers,
     req_headers, resp_headers, qual_headers, about_headers}

\* Lines at and around the limits of the classifier: exact, prefixed and
\* embedded headers, cleaned lengths 50 and 51, embedded headers with 14, 15
\* and 16 characters around them, and lines that are empty once cleaned.
HeaderLines ==
    {<<"S","k","i","l","l","s">>, <<"S","K","I","L","L","S",":">>, <<" ","-"," ","T","e","c","h","n","i","c","a","l"," ","S","k","i","l","l","s"," ","-"," ">>, <<"S","k","i","-","l","l","s">>,
     <<"s","k","i","l","l","s"," ","r","e","q","u","i","r","e","d">>, <<"s","k","i","l","l","s","e","t">>,
     <<"a"," ","t","o","p"," ","r","a","n","k","i","n","g"," ","s","k","i","l","l","s">>, <<"m","y"," ","t","o","p"," ","r","a","n","k","i","n","g"," ","s","k","i","l","l","s">>,
     <<"m","y"," ","t","o","p"," ","r","a","n","k","i","n","g","s"," ","s","k","i","l","l","s">>,
     <<"s","k","i","l","l","s"," ">> \o Repeat(<<"x">>, 43), <<"s","k","i","l","l","s"," ">> \o Repeat(<<"x">>, 44),
     Repeat(<<"x">>, 44) \o <<"s","k","i","l","l","s">>, Repeat(<<"x">>, 45) \o <<"s","k","i","l","l","s">>,
     <<"S","k","i","l","l","s">> \o Repeat(<<"-">>, 50),
     <<>>, <<":","-","<endash>","<emdash>">>, <<" "," "," ">>,
     <<"P","y","t","h","o","n",","," ","G","o">>, <<"A","b","o","u","t"," ","t","h","e"," ","C","o","m","p","a","n","y">>,
     <<"W","o","r","k"," ","E","x","p","e","r","i","e","n","c","e"," ","(","2","0","1","9"," ","<endash>"," ","2","0","2","4",")">>,
     <<"I"," ","h","a","v","e"," ","m","a","n","y"," ","y","e","a","r","s"," ","o","f"," ","e","x","p","e","r","i","e","n","c","e"," ","i","n"," ","s","o","f","t","w","a","r","e"," ","e","n","g","i","n","e","e","r","i","n","g">>}

MaxEntries == 4

\* Experience lines of 8, 20, 21 and 120 characters.
ExperiencePool ==
    {<<"L","e","d"," ","t","e","a","m">>, <<"L","e","d"," ","t","e","a","m","s"," ","o","f"," ","t","e","s","t","e","r","s">>, <<"L","e","d"," ","t","e","a","m","s"," ","o","f"," ","t","e","s","t","e","r","s",".">>,
     Repeat(<<"0","1","2","3","4","5","6","7","8","9">>, 12)}

ExperienceResumes ==
    {<<"E","x","p","e","r","i","e","n","c","e","\n">> \o Join(<<"\n">>, entries) :
        entries \in UNION {[1..n -> ExperiencePool] : n \in 1..MaxEntries}}

\* Parsed documents written out field by field, as the callers in
\* tests/test_questions.py:196-226 write them.
ParsedResumeOf(skills, experience) ==
    [raw_text |-> <<"S","i","m","p","l","e"," ","r","e","s","u","m","e">>, skills |-> skills,
     experience |-> experience, education |-> <<>>, summary |-> <<>>]

ParsedJDOf(requirements, responsibilities, qualifications) ==
    [raw_text |-> <<"S","i","m","p","l","e"," ","J","D">>, title |-> <<"E","n","g","i","n","e","e","r">>,
     requirements |-> requirements, responsibilities |-> responsibilities,
     qualifications |-> qualifications, company_info |-> <<>>]

\* Six requirements, four responsibilities and four qualifications: one more
\* than the generator reads of each.
RequirementPool ==
    <<<<"P","y","t","h","o","n"," ","e","x","p","e","r","i","e","n","c","e"," ","r","e","q","u","i","r","e","d">>, <<"G","o"," ","e","x","p","e","r","i","e","n","c","e"," ","r","e","q","u","i","r","e","d">>,
      <<"S","t","r","o","n","g"," ","S","Q","L">>, <<"T","e","a","m"," ","l","e","a","d","e","r","s","h","i","p">>, <<"D","j","a","n","g","o"," ","a","p","p","s">>,
      <<"A","g","i","l","e"," ","d","e","l","i","v","e","r","y">>>>

ResponsibilityPool ==
    <<<<"L","e","a","d"," ","t","h","e"," ","Q","A"," ","t","e","a","m">>, <<"P","l","a","n"," ","r","e","l","e","a","s","e","s">>, <<"R","e","v","i","e","w"," ","t","e","s","t"," ","p","l","a","n","s">>,
      <<"R","e","p","o","r","t"," ","m","e","t","r","i","c","s">>>>

QualificationPool ==
    <<<<"B","S","c"," ","i","n"," ","C","o","m","p","u","t","e","r"," ","S","c","i","e","n","c","e">>, <<"I","S","T","Q","B">>, <<"5"," ","y","e","a","r","s"," ","i","n"," ","Q","A">>,
      <<"F","l","u","e","n","t"," ","E","n","g","l","i","s","h">>>>

\* The prefixes of a list, the empty one included, and the list reversed.
Prefixes(pool) ==
    {SubSeq(pool, 1, n) : n \in 0..Len(pool)}
    \cup {[k \in 1..Len(pool) |-> pool[Len(pool) + 1 - k]]}

\* No resume, the resume of test_generate_with_minimal_resume, and resumes
\* whose skills differ from the requirements in letter case only.
CallerResumes ==
    {NoneDict,
     ParsedResumeOf(<<<<"P","y","t","h","o","n">>>>, <<>>),
     ParsedResumeOf(<<<<"g","o">>, <<"S","Q","L">>>>, <<<<"L","e","d"," ","t","e","a","m","s"," ","o","f"," ","t","e","s","t","e","r","s",".">>>>),
     ParsedResumeOf(<<>>, <<<<"L","e","d"," ","t","e","a","m">>>>),
     ParsedResumeOf(<<>>, <<>>)}

CallerJDs ==
    {NoneDict}
    \cup {ParsedJDOf(requirements, responsibilities, qualifications) :
            requirements \in Prefixes(RequirementPool),
            responsibilities \in Prefixes(ResponsibilityPool),
            qualifications \in Prefixes(QualificationPool)}

\* Sessions as the upload handlers leave them: parsed_resume is the parse of
\* the uploaded text, or None when nothing was uploaded; and sessions holding
\* the documents above.
QuestionSessions ==
    {[parsed_resume |-> parse_resume(t), parsed_job_description |-> NoneDict] :
        t \in ExperienceResumes}
    \cup {[parsed_resume |-> NoneDict, parsed_job_description |-> NoneDict]}
    \cup {[parsed_resume |-> resume, parsed_job_description |-> jd] :
            resume \in CallerResumes, jd \in CallerJDs}

\* Arguments of create_session: absent, empty and given.
CreateArguments ==
    [session_id : {"s1", "s2"},
     role : {NoneStr, <<>>, <<"Q","A"," ","L","e","a","d">>},
     company : {NoneStr, <<>>, <<"A","c","m","e">>},
     interviewer_type : {None, "", "recruiter", "ceo"}]

MaxTurns == 6

\* The session after n coached responses.
RECURSIVE Coached(_)
Coached(n) ==
    IF n = 0 THEN NewSession("s1", NoneStr, NoneStr, None)
    ELSE LET session == Coached(n - 1) IN
         Record(session, Context(session, Repeat(<<"r">>, n)),
                Repeat(<<"a">>, n))

\* Arguments of get_coaching_response: sessions with histories of 0 to
\* 2 * MaxTurns messages and the context of the next response.
CoachingArguments ==
    {[session |-> Coached(n),
      user_message |-> Context(Coached(n), <<"I"," ","l","e","d"," ","i","t",".">>)] :
        n \in 0..MaxTurns}

InitCall ==
    /\ SESSIONS = <<>>
    /\ request = NoRequest
    /\ response = NoResponse
    /\ lines = <<>>
    /\ i = 0
    /\ pc = "call"
    /\ \/ /\ fn = "_is_section_header"
          /\ text \in HeaderLines
          /\ frame \in {[headers |-> h] : h \in Vocabularies}
       \/ /\ fn = "generate_personalized_questions"
          /\ text = NoneStr
          /\ frame \in {[session |-> s] : s \in QuestionSessions}
       \/ /\ fn = "create_session"
          /\ text = NoneStr
          /\ frame \in CreateArguments
       \/ /\ fn = "get_coaching_response"
          /\ text = NoneStr
          /\ frame \in CoachingArguments

\* index.py:281-297
CallIsSectionHeader ==
    /\ fn = "_is_section_header" /\ pc = "call"
    /\ frame' = [headers |-> frame.headers,
                 result |-> _is_section_header(text, frame.headers)]
    /\ pc' = "return"
    /\ UNCHANGED <<fn, text, lines, i, apiVars>>

\* index.py:458-492
CallGeneratePersonalizedQuestions ==
    /\ fn = "generate_personalized_questions" /\ pc = "call"
    /\ frame' = [session |-> frame.session,
                 result |-> generate_personalized_questions(frame.session)]
    /\ pc' = "return"
    /\ UNCHANGED <<fn, text, lines, i, apiVars>>

\* index.py:260-278
CallCreateSession ==
    /\ fn = "create_session" /\ pc = "call"
    /\ LET session == NewSession(frame.session_id, frame.role, frame.company,
                                 frame.interviewer_type)
       IN /\ SESSIONS' = Store(frame.session_id, session)
          /\ frame' = [session_id |-> frame.session_id, role |-> frame.role,
                       company |-> frame.company,
                       interviewer_type |-> frame.interviewer_type,
                       result |-> session]
    /\ pc' = "return"
    /\ UNCHANGED <<fn, text, lines, i, request, response>>

\* index.py:565-567: the message list is built.
CallBuildMessages ==
    /\ fn = "get_coaching_response" /\ pc = "call"
    /\ LET built == Built(frame.session, frame.user_message)
       IN frame' = [session |-> built.session,
                    user_message |-> frame.user_message,
                    messages |-> built.messages]
    /\ pc' = "create"
    /\ UNCHANGED <<fn, text, lines, i, apiVars>>

\* index.py:569-582: client.messages.create returns a reply, which is
\* recorded with the user message.
CallCollaboratorReturns ==
    /\ fn = "get_coaching_response" /\ pc = "create"
    /\ \E assistant_message \in ReplyTexts :
           frame' = [session |-> Record(frame.session, frame.user_message,
                                        assistant_message),
                     user_message |-> frame.user_message,
                     messages |-> frame.messages,
                     result |-> assistant_message]
    /\ pc' = "return"
    /\ UNCHANGED <<fn, text, lines, i, apiVars>>

\* index.py:569-574: client.messages.create raises.
CallCollaboratorRaises ==
    /\ fn = "get_coaching_response" /\ pc = "create"
    /\ pc' = "raise"
    /\ UNCHANGED <<fn, text, lines, i, frame, apiVars>>

NextCall ==
    \/ CallIsSectionHeader
    \/ CallGeneratePersonalizedQuestions
    \/ CallCreateSession
    \/ CallBuildMessages
    \/ CallCollaboratorReturns
    \/ CallCollaboratorRaises

SpecCall == InitCall /\ [][NextCall]_vars

---------------------------------------------------------------------------
(* Properties of the session state machine                                 *)

\* The six rehearsal steps in their fixed order.
Rehearsal ==
    <<"identify_principle", "create_anchors", "guided_recall",
      "delivery_practice", "compression", "random_entry">>

Position(step) == CHOOSE k \in 1..Len(Rehearsal) : Rehearsal[k] = step

Known(step) == \E k \in 1..Len(Rehearsal) : Rehearsal[k] = step

\* The step just taken handled a request for `path` addressed to a stored
\* session.
Handled(path, session_id) ==
    /\ request'.path = path
    /\ request'.session_id = session_id
    /\ session_id \in DOMAIN SESSIONS
    /\ session_id \in DOMAIN SESSIONS'

\* The step just taken issued a new question to the session.
Issued(session_id) ==
    /\ \/ Handled("/api/question", session_id)
       \/ Handled("/api/personalized-question", session_id)
    /\ response'.status = 200
    /\ response'.question # NoneStr

\* C1: a confirm on a session at one of the first five steps sets
\* current_step to exactly the next step of the fixed order and reports that
\* step; no confirm skips a step or moves the step backwards.
C1_ConfirmAdvancesByOne ==
    [][\A id \in SessionIds :
        (Handled("/api/confirm", id) /\ Known(SESSIONS[id].current_step)) =>
            LET before == Position(SESSIONS[id].current_step)
                after == SESSIONS'[id].current_step
            IN /\ Known(after)
               /\ Position(after) \in {before, before + 1}
               /\ before < Len(Rehearsal) =>
                    /\ after = Rehearsal[before + 1]
                    /\ response'.status = 200
                    /\ response'.current_step = Rehearsal[before + 1]]_vars

\* C1 witness: five confirms have taken a session to random_entry, the last
\* one reporting it.
C1_Witness ==
    /\ request.path = "/api/confirm"
    /\ response.current_step = "random_entry"
    /\ "s1" \in DOMAIN SESSIONS
    /\ SESSIONS["s1"].current_step = "random_entry"

\* C2: a confirm on a session at random_entry reports 'complete' and leaves
\* the session as it is, however often it is repeated; a new question,
\* standard or personalized, takes the session from random_entry back to
\* identify_principle.
C2_CompleteIsTerminal ==
    [][\A id \in SessionIds :
        /\ (/\ Handled("/api/confirm", id)
            /\ SESSIONS[id].current_step = "random_entry") =>
                /\ response'.status = 200
                /\ response'.current_step = "complete"
                /\ SESSIONS' = SESSIONS
        /\ (Issued(id) /\ SESSIONS[id].current_step = "random_entry") =>
                SESSIONS'[id].current_step = "identify_principle"]_vars

\* C2 witness: a confirm was answered 'complete' and the session is still at
\* random_entry.
C2_Witness ==
    /\ request.path = "/api/confirm"
    /\ response.current_step = "complete"
    /\ "s1" \in DOMAIN SESSIONS
    /\ SESSIONS["s1"].current_step = "random_entry"

\* C3: issuing a new question, standard or personalized, sets current_step
\* to identify_principle, anchors to the empty sequence and principle to the
\* empty string, whatever they were before.
C3_NewQuestionResets ==
    [][\A id \in SessionIds :
        Issued(id) =>
            /\ SESSIONS'[id].current_step = "identify_principle"
            /\ SESSIONS'[id].anchors = <<>>
            /\ SESSIONS'[id].principle = <<>>]_vars

\* C3 witness: a personalized question was issued to a session that had
\* been coached at a later step, and the session is back at the first step
\* with no anchors and no principle.
C3_Witness ==
    /\ request.path = "/api/personalized-question"
    /\ response.status = 200
    /\ response.question # NoneStr
    /\ "s1" \in DOMAIN SESSIONS
    /\ SESSIONS["s1"].history # <<>>
    /\ SESSIONS["s1"].history[1].content[2] = "compression"
    /\ SESSIONS["s1"].current_step = "identify_principle"
    /\ SESSIONS["s1"].anchors = <<>>
    /\ SESSIONS["s1"].principle = <<>>

NonAdvancingPaths ==
    {"/api/respond", "/api/anchors", "/api/principle", "/api/interrupt",
     "/api/resume", "/api/job-description"}

\* C4: submit-response, set-anchors, set-principle, interrupt, resume upload
\* and job-description upload leave every session's current_step unchanged,
\* whether the request succeeds or is rejected.
C4_OnlyConfirmAdvances ==
    [][request'.path \in NonAdvancingPaths =>
        /\ DOMAIN SESSIONS' = DOMAIN SESSIONS
        /\ \A id \in DOMAIN SESSIONS :
              SESSIONS'[id].current_step = SESSIONS[id].current_step]_vars

\* C4 witness: a response was coached (the history grew) while the session
\* was, and still is, at guided_recall.
C4_Witness ==
    /\ request.path = "/api/respond"
    /\ response.status = 200
    /\ "s1" \in DOMAIN SESSIONS
    /\ SESSIONS["s1"].history # <<>>
    /\ SESSIONS["s1"].history[1].content[2] = "guided_recall"
    /\ SESSIONS["s1"].current_step = "guided_recall"

\* C5: in every state the API can reach, each stored session's current_step
\* is one of the six rehearsal steps; 'complete' is never stored.
C5_StepIsRehearsalStep ==
    \A id \in DOMAIN SESSIONS : SESSIONS[id].current_step \in TrainingStep

\* C5 witness: 'complete' has been reported and the stored step is
\* random_entry.
C5_Witness ==
    /\ response.current_step = "complete"
    /\ \E id \in DOMAIN SESSIONS : SESSIONS[id].current_step = "random_entry"

\* C6: a confirm on a session whose current_step is none of the six known
\* steps does not fail: it sets current_step to create_anchors and reports
\* create_anchors.
C6_UnknownStepIsIndexZero ==
    [][\A id \in SessionIds :
        (Handled("/api/confirm", id) /\ ~Known(SESSIONS[id].current_step)) =>
            /\ response'.status = 200
            /\ response'.current_step = "create_anchors"
            /\ SESSIONS'[id].current_step = "create_anchors"]_vars

\* C6 witness: a session that was coached while its step was unknown, and
\* has had no question since, was confirmed into create_anchors: no known
\* step from which a confirm leads there can have been restored.
C6_Witness ==
    /\ request.path = "/api/confirm"
    /\ response.current_step = "create_anchors"
    /\ "s1" \in DOMAIN SESSIONS
    /\ SESSIONS["s1"].current_step = "create_anchors"
    /\ SESSIONS["s1"].current_question = <<>>
    /\ SESSIONS["s1"].history # <<>>
    /\ ~Known(SESSIONS["s1"].history[1].content[2])

---------------------------------------------------------------------------
(* Properties of the parsers                                               *)

ResumePriority ==
    <<[section |-> "skills", headers |-> skill_headers],
      [section |-> "experience", headers |-> exp_headers],
      [section |-> "education", headers |-> edu_headers],
      [section |-> "summary", headers |-> summary_headers]>>

JDPriority ==
    <<[section |-> "requirements", headers |-> req_headers],
      [section |-> "responsibilities", headers |-> resp_headers],
      [section |-> "qualifications", headers |-> qual_headers],
      [section |-> "company_info", headers |-> about_headers]>>

Priority == IF fn = "parse_resume" THEN ResumePriority ELSE JDPriority

\* The groups, by position in the given priority order, whose header test
\* the line satisfies.
GroupsOf(line, priority) ==
    {g \in 1..Len(priority) : _is_section_header(line, priority[g].headers)}

\* The same for the lines of the two pools, evaluated once.
PoolGroups ==
    [f \in {"parse_resume", "parse_job_description"} |->
        [line \in ResumeLinePool \cup JDLinePool |->
            GroupsOf(line, IF f = "parse_resume" THEN ResumePriority
                           ELSE JDPriority)]]

GroupsMatching(line) ==
    IF line \in DOMAIN PoolGroups[fn] THEN PoolGroups[fn][line]
    ELSE GroupsOf(line, Priority)

\* The line is a header of no group of the profile.
NoHeader(line) == GroupsMatching(line) = {}

Least(S) == CHOOSE m \in S : \A n \in S : m <= n

\* C7: after a line that satisfies the header test of two or more groups,
\* the current section is the group that comes first in the profile's
\* priority order.
C7_EarlierGroupWins ==
    (pc \in {"loop", "saved", "done"} /\ i > 0) =>
        LET matching == GroupsMatching(lines[i]) IN
        Cardinality(matching) >= 2 =>
            frame.current_section = Priority[Least(matching)].section

\* C7 witness: 'Skills and Experience', a header of the skills and of the
\* experience group, has opened the skills section of a resume.
C7_Witness ==
    /\ fn = "parse_resume"
    /\ pc = "loop"
    /\ i > 0
    /\ lines[i] = <<"S","k","i","l","l","s"," ","a","n","d"," ","E","x","p","e","r","i","e","n","c","e">>
    /\ GroupsMatching(lines[i]) = {1, 2}
    /\ frame.current_section = "skills"

\* C8: for an empty or absent text both parsers return the all-default
\* structure: every sequence field empty, every string field empty, and
\* raw_text the input itself.
C8_EmptyInputGivesDefaults ==
    (pc = "done" /\ (text = NoneStr \/ text = <<>>)) =>
        IF fn = "parse_resume"
        THEN frame.parsed =
                [raw_text |-> text, skills |-> <<>>, experience |-> <<>>,
                 education |-> <<>>, summary |-> <<>>]
        ELSE frame.parsed =
                [raw_text |-> text, title |-> <<>>, requirements |-> <<>>,
                 responsibilities |-> <<>>, qualifications |-> <<>>,
                 company_info |-> <<>>]

\* C8 witness: parse_resume has returned for an absent text.
C8_Witness ==
    /\ fn = "parse_resume"
    /\ pc = "done"
    /\ text = NoneStr
    /\ frame.parsed.raw_text = NoneStr

\* The lines of the document, and the section the nearest header line
\* before line k opens (None when there is none).
InputLines == SplitOn(text, {"\n"})

HeaderAt(k) ==
    IF NoHeader(InputLines[k]) THEN None
    ELSE Priority[Least(GroupsMatching(InputLines[k]))].section

RECURSIVE SectionBefore(_)
SectionBefore(k) ==
    IF k = 1 THEN None
    ELSE IF HeaderAt(k - 1) # None THEN HeaderAt(k - 1)
    ELSE SectionBefore(k - 1)

IsContent(k) == NoHeader(InputLines[k]) /\ Strip(InputLines[k]) # <<>>

\* The trimmed content lines, in document order, whose nearest preceding
\* header belongs to the section.
RECURSIVE ContentUpTo(_, _)
ContentUpTo(section, k) ==
    IF k = 0 THEN <<>>
    ELSE ContentUpTo(section, k - 1)
         \o (IF IsContent(k) /\ SectionBefore(k) = section
             THEN <<Strip(InputLines[k])>> ELSE <<>>)

ContentOf(section) == ContentUpTo(section, Len(InputLines))

\* C9: after parse_resume, experience and education hold, in document
\* order, all the trimmed non-blank non-header lines whose nearest preceding
\* header belongs to that group, also when a header of the group occurs more
\* than once.
C9_SectionHoldsAllItsLines ==
    (fn = "parse_resume" /\ pc = "done" /\ Truthy(text)) =>
        /\ frame.parsed.experience = ContentOf("experience")
        /\ frame.parsed.education = ContentOf("education")

ListFields ==
    IF fn = "parse_resume" THEN {"experience", "education"}
    ELSE {"requirements", "responsibilities", "qualifications"}

\* C10: every element of experience, education, requirements,
\* responsibilities and qualifications is the trimmed text of a non-blank
\* input line that matched no header vocabulary of its profile.
C10_ContentIsNonHeaderLines ==
    (pc \in {"loop", "saved", "done"} /\ Truthy(text)) =>
        \A field \in ListFields :
            \A n \in 1..Len(frame.parsed[field]) :
                \E k \in 1..Len(InputLines) :
                    /\ IsContent(k)
                    /\ frame.parsed[field][n] = Strip(InputLines[k])

\* C10 witness: a job posting with a header line, a blank line and a
\* padded content line has been parsed; the requirements hold only the
\* trimmed content line.
C10_Witness ==
    /\ fn = "parse_job_description"
    /\ pc = "done"
    /\ Truthy(text)
    /\ InputLines = <<<<"R","e","q","u","i","r","e","d"," ","S","k","i","l","l","s">>, <<>>, <<" ","5"," ","y","e","a","r","s"," ","P","y","t","h","o","n"," ">>,
                      <<"Q","A"," ","L","e","a","d">>>>
    /\ frame.parsed.requirements = <<<<"5"," ","y","e","a","r","s"," ","P","y","t","h","o","n">>, <<"Q","A"," ","L","e","a","d">>>>

---------------------------------------------------------------------------
(* Skill splitting                                                         *)

SkillGlyphs == {",", "<bullet>", "<middot>", "|"}

Greatest(S) == CHOOSE m \in S : \A n \in S : m >= n

\* The pieces of the line between consecutive glyphs, from position a + 1.
RECURSIVE FragmentsFrom(_, _)
FragmentsFrom(line, a) ==
    LET later == {k \in (a + 1)..Len(line) : line[k] \in SkillGlyphs} IN
    IF later = {} THEN <<SubSeq(line, a + 1, Len(line))>>
    ELSE <<SubSeq(line, a + 1, Least(later) - 1)>>
         \o FragmentsFrom(line, Least(later))

\* The piece without its leading and trailing blanks.
Trimmed(piece) ==
    LET inked == {k \in 1..Len(piece) : piece[k] \notin Whitespace} IN
    IF inked = {} THEN <<>>
    ELSE SubSeq(piece, Least(inked), Greatest(inked))

KeptOfLine(line) ==
    LET pieces == FragmentsFrom(line, 0) IN
    SelectSeq([k \in 1..Len(pieces) |-> Trimmed(pieces[k])],
              LAMBDA piece : Len(piece) > 1)

RECURSIVE KeptOfLines(_)
KeptOfLines(content) ==
    IF content = <<>> THEN <<>>
    ELSE KeptOfLine(Head(content)) \o KeptOfLines(Tail(content))

\* C11: the skills of a parsed resume are, line by line of its skills
\* sections, the pieces between commas, bullets, middle dots and pipes,
\* trimmed, in order and with duplicates, kept exactly when longer than one
\* character; 'Python, JavaScript, React' gives [Python, JavaScript, React],
\* a bulleted 'Python', 'JavaScript' gives [Python, JavaScript]; no skill is
\* empty, one character long or holds a separator.
C11_SkillsAreTrimmedFragments ==
    (fn = "parse_resume" /\ pc = "done" /\ Truthy(text)) =>
        LET skills == frame.parsed.skills IN
        /\ skills = KeptOfLines(ContentOf("skills"))
        /\ \A n \in 1..Len(skills) :
              /\ Len(skills[n]) > 1
              /\ \A k \in 1..Len(skills[n]) : skills[n][k] \notin SkillGlyphs
        /\ text = <<"S","k","i","l","l","s",":","\n","P","y","t","h","o","n",","," ","J","a","v","a","S","c","r","i","p","t",","," ","R","e","a","c","t">> =>
              skills = <<<<"P","y","t","h","o","n">>, <<"J","a","v","a","S","c","r","i","p","t">>, <<"R","e","a","c","t">>>>
        /\ text = <<"S","k","i","l","l","s",":","\n","<bullet>"," ","P","y","t","h","o","n"," ","<bullet>"," ","J","a","v","a","S","c","r","i","p","t">> =>
              skills = <<<<"P","y","t","h","o","n">>, <<"J","a","v","a","S","c","r","i","p","t">>>>

\* C11 witness: a skills section with one-character, empty, repeated and
\* padded fragments has been parsed.
C11_Witness ==
    /\ fn = "parse_resume"
    /\ pc = "done"
    /\ text = <<"T","e","c","h","n","i","c","a","l"," ","S","k","i","l","l","s",":","\n","C",","," ","G","o"," ","|"," ","G","o"," ","<middot>"," ","R",",",","," ","x"," ",",","R","u","s","t","|","\n","\n"," ","C","+","+"," ","|"," ","a"," ","b"," ">>
    /\ frame.parsed.skills =
          <<<<"G","o">>, <<"G","o">>, <<"R","u","s","t">>, <<"C","+","+">>, <<"a"," ","b">>>>

---------------------------------------------------------------------------
(* Title capture                                                           *)

Inked == {k \in 1..Len(InputLines) : Trimmed(InputLines[k]) # <<>>}

Headers == {k \in 1..Len(InputLines) : ~NoHeader(InputLines[k])}

\* The positions of the content lines, in document order.
ContentLines ==
    SelectSeq([k \in 1..Len(InputLines) |-> k], LAMBDA k : IsContent(k))

\* The trimmed lines of ls at those of the positions that lie in a..b.
ContentBetween(ls, positions, a, b) ==
    LET within == SelectSeq(positions, LAMBDA k : a <= k /\ k <= b) IN
    [n \in 1..Len(within) |-> Trimmed(ls[within[n]])]

\* What the lines after line t can contribute to one section.
FromAfter(ls, positions, t) ==
    {ContentBetween(ls, positions, a, b) :
        a \in (t + 1)..(Len(ls) + 1), b \in t..Len(ls)}

\* C12: when the first non-blank line of a job text is no header,
\* parse_job_description returns it, trimmed, as the title, and
\* requirements, responsibilities, qualifications and company_info are
\* made of later lines only.
C12_TitleIsFirstLine ==
    (fn = "parse_job_description" /\ pc = "done" /\ Truthy(text)
        /\ Inked # {} /\ Least(Inked) \notin Headers) =>
        LET first == Least(Inked)
            parsed == frame.parsed
            later == FromAfter(InputLines, ContentLines, first)
        IN
        /\ parsed.title = Trimmed(InputLines[first])
        /\ parsed.requirements \in later
        /\ parsed.responsibilities \in later
        /\ parsed.qualifications \in later
        /\ \E content \in later :
              parsed.company_info = Join(<<" ">>, content)

\* C12 witness: a posting with two lines before its first header, the
\* first of which comes again as a requirement.
C12_Witness ==
    /\ fn = "parse_job_description"
    /\ pc = "done"
    /\ text = <<"Q","A"," ","L","e","a","d","\n"," ","5"," ","y","e","a","r","s"," ","P","y","t","h","o","n"," ","\n","R","e","q","u","i","r","e","d"," ","S","k","i","l","l","s","\n","Q","A"," ","L","e","a","d">>
    /\ frame.parsed.title = <<"Q","A"," ","L","e","a","d">>
    /\ frame.parsed.requirements = <<<<"Q","A"," ","L","e","a","d">>>>

\* The step just taken is the loop's iteration on line i + 1 of a job text.
JDStep ==
    /\ fn = "parse_job_description"
    /\ pc = "loop"
    /\ i' = i + 1

\* Before line k: no header has matched, and fewer than three non-blank
\* lines have been seen.
Diverting(k) ==
    /\ \A j \in 1..(k - 1) : NoHeader(lines[j])
    /\ Cardinality({j \in 1..(k - 1) : Trimmed(lines[j]) # <<>>})
          < TitleCandidates

\* C13: each of the first up to three non-blank lines before the first
\* header is kept out of the section accumulator; once a header has matched
\* or three such lines have been seen, every non-blank line that is no
\* header is appended to it.
C13_FirstThreeAreDiverted ==
    [][(JDStep /\ NoHeader(lines[i + 1]) /\ Trimmed(lines[i + 1]) # <<>>) =>
        IF Diverting(i + 1)
        THEN frame'.section_content = frame.section_content
        ELSE frame'.section_content =
                Append(frame.section_content, Trimmed(lines[i + 1]))]_vars

\* C14: the title of a job text is only ever assigned from a line that
\* comes before every header line: a step changes it only on a line with no
\* header at or before it, and a text whose first non-blank line is a header
\* is returned with the empty title.
C14_TitleOnlyBeforeHeaders ==
    [][(fn = "parse_job_description" /\ pc = "loop") =>
        /\ frame'.parsed.title # frame.parsed.title =>
              /\ JDStep
              /\ \A j \in 1..(i + 1) : NoHeader(lines[j])
              /\ frame'.parsed.title = Trimmed(lines[i + 1])
        /\ (pc' = "done" /\ Inked # {} /\ Least(Inked) \in Headers) =>
              frame'.parsed.title = <<>>]_vars

\* C14 witness: a posting that opens with a header and goes on with two
\* content lines has been returned, its title empty.
C14_Witness ==
    /\ fn = "parse_job_description"
    /\ pc = "done"
    /\ text = <<"R","e","q","u","i","r","e","d"," ","S","k","i","l","l","s","\n","Q","A"," ","L","e","a","d","\n"," ","5"," ","y","e","a","r","s"," ","P","y","t","h","o","n"," ">>
    /\ frame.parsed.title = <<>>
    /\ frame.parsed.requirements = <<<<"Q","A"," ","L","e","a","d">>, <<"5"," ","y","e","a","r","s"," ","P","y","t","h","o","n">>>>

---------------------------------------------------------------------------
(* Summary fallback                                                        *)

\* The first n characters of the text, all of it when it is shorter.
FirstChars(t, n) == [k \in 1..(IF Len(t) < n THEN Len(t) ELSE n) |-> t[k]]

ReturnedWithoutHeader ==
    /\ fn = "parse_resume"
    /\ pc = "done"
    /\ Truthy(text)
    /\ Headers = {}

\* C16 as stated: for a resume text without any section header, summary is
\* the whole text with its leading and trailing whitespace removed when the
\* text has fewer than 1000 characters, and exactly the first 1000
\* characters of the text when it has more.
C16_SummaryIsTrimmedText ==
    ReturnedWithoutHeader =>
        /\ Len(text) < SummaryLimit => frame.parsed.summary = Trimmed(text)
        /\ Len(text) > SummaryLimit =>
              /\ Len(frame.parsed.summary) = SummaryLimit
              /\ frame.parsed.summary = FirstChars(text, SummaryLimit)

\* C16 amended: for a resume text without any section header, summary is
\* the whole text as given, leading and trailing whitespace included, when
\* the text has fewer than 1000 characters, and exactly the first 1000
\* characters of the text when it has more.
C16_SummaryIsRawText ==
    ReturnedWithoutHeader =>
        /\ Len(text) < SummaryLimit => frame.parsed.summary = text
        /\ Len(text) > SummaryLimit =>
              /\ Len(frame.parsed.summary) = SummaryLimit
              /\ frame.parsed.summary = FirstChars(text, SummaryLimit)

\* C16 witness: a text of more than 1000 characters that opens with blanks
\* has been returned; its summary is 1000 characters long and opens with
\* the same blanks.
C16_Witness ==
    /\ ReturnedWithoutHeader
    /\ Len(text) > SummaryLimit
    /\ text[1] = " "
    /\ Len(frame.parsed.summary) = SummaryLimit
    /\ frame.parsed.summary[1] = " "

\* C17: the summary fallback is applied only when no section was found:
\* for a resume in which some line is a section header, the step after the
\* last section is saved leaves summary as segmented.
C17_NoFallbackWithSections ==
    [][(fn = "parse_resume" /\ pc = "saved" /\ Headers # {}) =>
        frame'.parsed.summary = frame.parsed.summary]_vars

---------------------------------------------------------------------------
(* The header classifier                                                   *)

Dashes == {":", "-", "<endash>", "<emdash>"}

\* The line without colons and dashes, in lower case, trimmed.
Cleaned(line) == Trimmed(Lower(SelectSeq(line, LAMBDA c : c \notin Dashes)))

\* h occurs in c from position a + 1 on.
OccursAt(c, h, a) == a + Len(h) <= Len(c) /\ SubSeq(c, a + 1, a + Len(h)) = h

Returned(f) == fn = f /\ pc = "return"

\* C18 as stated: a line is accepted exactly when its cleaned form has at
\* most 50 characters and, for some entry h of the vocabulary, equals h, or
\* starts with h and a space, or contains h and is no longer than
\* len(h) + 15.
C18_AcceptedWithinSlack ==
    Returned("_is_section_header") =>
        LET c == Cleaned(text) IN
        frame.result <=>
            /\ Len(c) <= HeaderMaxLen
            /\ \E n \in 1..Len(frame.headers) :
                  LET h == frame.headers[n] IN
                  \/ c = h
                  \/ OccursAt(c, h \o <<" ">>, 0)
                  \/ /\ \E a \in 0..Len(c) : OccursAt(c, h, a)
                     /\ Len(c) <= Len(h) + HeaderSlack

\* C18 amended: as stated, but a line that only contains h must be shorter
\* than len(h) + 15.
C18_AcceptedBelowSlack ==
    Returned("_is_section_header") =>
        LET c == Cleaned(text) IN
        frame.result <=>
            /\ Len(c) <= HeaderMaxLen
            /\ \E n \in 1..Len(frame.headers) :
                  LET h == frame.headers[n] IN
                  \/ c = h
                  \/ OccursAt(c, h \o <<" ">>, 0)
                  \/ /\ \E a \in 0..Len(c) : OccursAt(c, h, a)
                     /\ Len(c) < Len(h) + HeaderSlack

\* C18 witness: 'a top ranking skills', 20 characters with 'skills' at its
\* end, has been accepted for the resume skills vocabulary.
C18_Witness ==
    /\ Returned("_is_section_header")
    /\ text = <<"a"," ","t","o","p"," ","r","a","n","k","i","n","g"," ","s","k","i","l","l","s">>
    /\ frame.headers = skill_headers
    /\ frame.result

\* C19: a line whose cleaned form is longer than 50 characters, or empty,
\* is a header for no vocabulary, whatever it starts with or contains.
C19_LongOrEmptyIsNoHeader ==
    (/\ Returned("_is_section_header")
     /\ (Len(Cleaned(text)) > HeaderMaxLen \/ Cleaned(text) = <<>>)) =>
        ~frame.result

\* C19 witness: a line of 51 characters that starts with 'skills ' has been
\* rejected for the resume skills vocabulary.
C19_Witness ==
    /\ Returned("_is_section_header")
    /\ Len(Cleaned(text)) = HeaderMaxLen + 1
    /\ OccursAt(Cleaned(text), <<"s","k","i","l","l","s"," ">>, 0)
    /\ frame.headers = skill_headers
    /\ ~frame.result

---------------------------------------------------------------------------
(* Personalized questions                                                  *)

ExperiencePrefix == <<"T","e","l","l"," ","m","e"," ","m","o","r","e"," ","a","b","o","u","t"," ","y","o","u","r"," ","e","x","p","e","r","i","e","n","c","e"," ","w","i","t","h",":"," ">>

AsExperienceQuestion(entry) ==
    ExperiencePrefix \o FirstChars(entry, 100) \o <<".",".",".">>

\* The experience entries of the session the call was made with.
ExperienceGiven ==
    IF "experience" \in DOMAIN frame.session.parsed_resume
    THEN frame.session.parsed_resume.experience
    ELSE <<>>

\* The experience questions among the questions returned.
ExperiencePart ==
    SelectSeq(frame.result, LAMBDA q : OccursAt(q, ExperiencePrefix, 0))

LongOnes(entries) == SelectSeq(entries, LAMBDA entry : Len(entry) > 20)

\* C20 as stated: the experience questions are those of the first three
\* entries longer than 20 characters, min(3, number of entries longer than
\* 20) of them, each the prefix, the first 100 characters of the entry and
\* '...'.
C20_QuestionPerLongEntry ==
    Returned("generate_personalized_questions") =>
        LET long == LongOnes(ExperienceGiven)
            count == IF Len(long) < 3 THEN Len(long) ELSE 3
        IN ExperiencePart = [k \in 1..count |-> AsExperienceQuestion(long[k])]

\* C20 amended: the experience questions are those of the entries longer
\* than 20 characters among the first three entries, as many as there are
\* such entries, each the prefix, the first 100 characters of the entry and
\* '...'.
C20_QuestionPerLongEntryOfFirstThree ==
    Returned("generate_personalized_questions") =>
        LET given == ExperienceGiven
            long == LongOnes(SubSeq(given, 1,
                                    IF Len(given) < 3 THEN Len(given) ELSE 3))
        IN ExperiencePart =
              [k \in 1..Len(long) |-> AsExperienceQuestion(long[k])]

\* C20 witness: for an entry of 8 characters followed by entries of 21, 120
\* and 21, two questions have been returned, the second cut to 100
\* characters of its entry.
C20_Witness ==
    /\ Returned("generate_personalized_questions")
    /\ Len(ExperienceGiven) = 4
    /\ Len(ExperienceGiven[1]) = 8
    /\ Len(ExperienceGiven[2]) = 21
    /\ Len(ExperienceGiven[3]) = 120
    /\ Len(ExperienceGiven[4]) = 21
    /\ Len(frame.result) = 2
    /\ Len(frame.result[2]) = Len(ExperiencePrefix) + 100 + 3

\* The list field `key` of the job description the call was made with.
JobGiven(key) ==
    IF key \in DOMAIN frame.session.parsed_job_description
    THEN frame.session.parsed_job_description[key]
    ELSE <<>>

\* The skills of the resume the call was made with.
SkillsGiven ==
    IF "skills" \in DOMAIN frame.session.parsed_resume
    THEN frame.session.parsed_resume.skills
    ELSE <<>>

ElaboratePrefix ==
    <<"Y","o","u"," ","m","e","n","t","i","o","n","e","d"," ","r","e","l","e","v","a","n","t"," ","e","x","p","e","r","i","e","n","c","e","."," ","C","a","n"," ","y","o","u"," ","e","l","a","b","o","r","a","t","e"," ","o","n",":"," ">>

RequiresPrefix == <<"T","h","i","s"," ","r","o","l","e"," ","r","e","q","u","i","r","e","s",":"," ">>

Occurs(c, h) == \E a \in 0..Len(c) : OccursAt(c, h, a)

\* Some skill, lowercased, is a substring of the lowercased requirement.
SkillIn(req) ==
    \E k \in 1..Len(SkillsGiven) : Occurs(Lower(req), Lower(SkillsGiven[k]))

AsRequirementQuestion(req) ==
    IF SkillIn(req)
    THEN ElaboratePrefix \o req
    ELSE RequiresPrefix \o req \o <<"."," ","H","o","w"," ","w","o","u","l","d"," ","y","o","u"," ","a","p","p","r","o","a","c","h"," ","t","h","i","s","?">>

\* The first n entries of a list, or all of them when there are fewer.
FirstOf(entries, n) ==
    [k \in 1..(IF Len(entries) < n THEN Len(entries) ELSE n) |-> entries[k]]

\* The requirement questions among the questions returned.
RequirementPart ==
    SelectSeq(frame.result,
              LAMBDA q : \/ OccursAt(q, ElaboratePrefix, 0)
                         \/ OccursAt(q, RequiresPrefix, 0))

\* C21: the requirement questions returned are, in order, one for each of
\* the first min(5, n) requirements: the 'You mentioned relevant experience.
\* Can you elaborate on: ' form exactly when some skill, lowercased, is a
\* substring of the lowercased requirement, the 'This role requires: ' form
\* otherwise, and none for a requirement after the fifth.
C21_QuestionPerRequirement ==
    Returned("generate_personalized_questions") =>
        LET first == FirstOf(JobGiven("requirements"), 5)
        IN /\ RequirementPart =
                 [k \in 1..Len(first) |-> AsRequirementQuestion(first[k])]
           /\ SkillsGiven = <<>> =>
                 \A k \in 1..Len(RequirementPart) :
                     OccursAt(RequirementPart[k], RequiresPrefix, 0)

\* C21 witness: with skills 'go' and 'SQL' and six requirements, five
\* requirement questions have been returned, 'This role requires' for
\* 'Python experience required' and 'You mentioned' for 'Go experience
\* required', 'Strong SQL' and 'Django apps'.
C21_Witness ==
    /\ Returned("generate_personalized_questions")
    /\ SkillsGiven = <<<<"g","o">>, <<"S","Q","L">>>>
    /\ JobGiven("requirements") = RequirementPool
    /\ Len(RequirementPart) = 5
    /\ OccursAt(RequirementPart[1], RequiresPrefix, 0)
    /\ OccursAt(RequirementPart[2], ElaboratePrefix, 0)
    /\ OccursAt(RequirementPart[3], ElaboratePrefix, 0)
    /\ OccursAt(RequirementPart[4], RequiresPrefix, 0)
    /\ OccursAt(RequirementPart[5], ElaboratePrefix, 0)

ResponsibilityPrefix == <<"H","o","w"," ","w","o","u","l","d"," ","y","o","u"," ","h","a","n","d","l","e",":"," ">>

QualificationPrefix ==
    <<"W","h","a","t"," ","m","a","k","e","s"," ","y","o","u"," ","q","u","a","l","i","f","i","e","d"," ","f","o","r"," ","t","h","i","s"," ","r","o","l","e"," ","g","i","v","e","n"," ","t","h","e"," ","r","e","q","u","i","r","e","m","e","n","t","s",":"," ">>

\* The responsibility questions among the questions returned.
ResponsibilityPart ==
    SelectSeq(frame.result, LAMBDA q : OccursAt(q, ResponsibilityPrefix, 0))

\* The qualifications questions among the questions returned.
QualificationPart ==
    SelectSeq(frame.result, LAMBDA q : OccursAt(q, QualificationPrefix, 0))

\* C22: a returned list is its experience questions, then its requirement
\* questions, then its responsibility questions, then its qualifications
\* question; the responsibility questions are 'How would you handle: ' and
\* the responsibility, one for each of the first three responsibilities, in
\* the order of the responsibilities.
C22_GroupsInFixedOrder ==
    (Returned("generate_personalized_questions") /\ frame.result # NoneList) =>
        LET first == FirstOf(JobGiven("responsibilities"), 3)
        IN /\ frame.result = ExperiencePart \o RequirementPart
                             \o ResponsibilityPart \o QualificationPart
           /\ ResponsibilityPart =
                 [k \in 1..Len(first) |-> ResponsibilityPrefix \o first[k]]

\* C22 witness: a list with questions of all four groups has been returned
\* for a job description that names four responsibilities, three of which
\* are asked about.
C22_Witness ==
    /\ Returned("generate_personalized_questions")
    /\ frame.result # NoneList
    /\ ExperiencePart # <<>>
    /\ Len(RequirementPart) = 5
    /\ JobGiven("responsibilities") = ResponsibilityPool
    /\ Len(ResponsibilityPart) = 3
    /\ QualificationPart # <<>>
    /\ Len(frame.result) = 10

RECURSIVE CommaJoined(_)
CommaJoined(parts) ==
    IF Len(parts) = 0 THEN <<>>
    ELSE IF Len(parts) = 1 THEN parts[1]
    ELSE parts[1] \o <<","," ">> \o CommaJoined(Tail(parts))

\* C23: there is one qualifications question when qualifications is not
\* empty and none when it is; it is the prefix, the first three
\* qualifications joined by ', ' and '?', and it is the last question of
\* the list.
C23_OneQualificationsQuestion ==
    Returned("generate_personalized_questions") =>
        LET given == JobGiven("qualifications")
            question == QualificationPrefix
                        \o CommaJoined(FirstOf(given, 3)) \o <<"?">>
        IN IF given = <<>>
           THEN QualificationPart = <<>>
           ELSE /\ QualificationPart = <<question>>
                /\ frame.result[Len(frame.result)] = question

\* C23 witness: for four qualifications the list returned ends with the
\* question that lists three of them.
C23_Witness ==
    /\ Returned("generate_personalized_questions")
    /\ JobGiven("qualifications") = QualificationPool
    /\ Len(frame.result) > 1
    /\ frame.result[Len(frame.result)] =
          QualificationPrefix
          \o <<"B","S","c"," ","i","n"," ","C","o","m","p","u","t","e","r"," ","S","c","i","e","n","c","e",","," ","I","S","T","Q","B",","," ","5"," ","y","e","a","r","s"," ","i","n"," ","Q","A">> \o <<"?">>

\* No rule has anything to ask about: no entry longer than 20 characters
\* among the first three of experience, and no requirements,
\* responsibilities or qualifications.
NothingToAsk ==
    /\ LongOnes(FirstOf(ExperienceGiven, 3)) = <<>>
    /\ JobGiven("requirements") = <<>>
    /\ JobGiven("responsibilities") = <<>>
    /\ JobGiven("qualifications") = <<>>

\* C24: the call returns None exactly when no rule has anything to ask
\* about, and never an empty list; so it returns None when both documents
\* are None, and when there is no job description and the resume has no
\* experience.
C24_NoneIffNothingToAsk ==
    Returned("generate_personalized_questions") =>
        /\ frame.result = NoneList <=> NothingToAsk
        /\ frame.result # <<>>
        /\ (/\ frame.session.parsed_resume = NoneDict
            /\ frame.session.parsed_job_description = NoneDict)
           => frame.result = NoneList
        /\ (/\ frame.session.parsed_job_description = NoneDict
            /\ ExperienceGiven = <<>>)
           => frame.result = NoneList

\* C24 witness: None has been returned for a resume with the skill 'Python'
\* and no experience, without a job description.
C24_Witness ==
    /\ Returned("generate_personalized_questions")
    /\ SkillsGiven = <<<<"P","y","t","h","o","n">>>>
    /\ ExperienceGiven = <<>>
    /\ frame.session.parsed_job_description = NoneDict
    /\ frame.result = NoneList

---------------------------------------------------------------------------
(* Requests and the session table                                          *)

\* The POST endpoints that look a session up.
LookupPaths ==
    {"/api/question", "/api/respond", "/api/confirm", "/api/interrupt",
     "/api/anchors", "/api/principle", "/api/resume", "/api/job-description",
     "/api/personalized-question"}

\* C25: a request to an endpoint other than the creation that names an id
\* which is not stored is answered with 400 'Session not found' and leaves
\* the session table as it was: no session is added and none is changed.
C25_UnknownIdIsRejected ==
    [][(/\ request'.path \in LookupPaths
        /\ request'.session_id \notin DOMAIN SESSIONS)
       => /\ response'.status = 400
          /\ response'.error = "Session not found"
          /\ SESSIONS' = SESSIONS]_vars

\* C25 witness: with "s1" and "s2" stored, "s1" holding a parsed resume, a
\* job description sent for "s0" has been answered with 400 'Session not
\* found'.
C25_Witness ==
    /\ request.path = "/api/job-description"
    /\ request.session_id = "s0"
    /\ response.status = 400
    /\ response.error = "Session not found"
    /\ DOMAIN SESSIONS = {"s1", "s2"}
    /\ SESSIONS["s1"].parsed_resume # NoneDict

\* C26: a request without its input is answered with 400 and leaves the
\* session table as it was: a respond with an empty response (the reply is
\* the 400, so the collaborator was not called), a resume upload and a
\* job-description upload with empty text, and a personalized-question
\* request for a session without parsed documents.
C26_RejectedRequestChangesNothing ==
    [][\A session_id \in DOMAIN SESSIONS :
          /\ Respond(session_id, <<>>)
             => /\ response'.status = 400
                /\ response'.error = "Response is required"
                /\ SESSIONS' = SESSIONS
          /\ Resume(session_id, <<>>)
             => /\ response'.status = 400
                /\ response'.error = "Resume text is required"
                /\ SESSIONS' = SESSIONS
          /\ JobDescription(session_id, <<>>)
             => /\ response'.status = 400
                /\ response'.error = "Job description is required"
                /\ SESSIONS' = SESSIONS
          /\ (/\ PersonalizedQuestion(session_id)
              /\ SESSIONS[session_id].parsed_resume = NoneDict
              /\ SESSIONS[session_id].parsed_job_description = NoneDict)
             => /\ response'.status = 400
                /\ SESSIONS' = SESSIONS]_vars

\* C26 witness: an empty resume text sent for a session that holds a parsed
\* resume has been answered with 400, while another session holds the
\* history of a coached response.
C26_Witness ==
    /\ request.path = "/api/resume"
    /\ request.session_id = "s1"
    /\ response.status = 400
    /\ response.error = "Resume text is required"
    /\ SESSIONS["s1"].parsed_resume # NoneDict
    /\ "s2" \in DOMAIN SESSIONS
    /\ SESSIONS["s2"].history # <<>>

\* C27: a request addressed to one session id leaves every session stored
\* under another id as it was, so the requests for one session never change
\* what the requests for another have produced.
C27_OtherSessionsUntouched ==
    [][\A session_id \in DOMAIN SESSIONS :
          request'.session_id # session_id
          => /\ session_id \in DOMAIN SESSIONS'
             /\ SESSIONS'[session_id] = SESSIONS[session_id]]_vars

\* C27 witness: a job description has been stored for "s1", which already
\* held a resume, while "s2" holds the history of a coached response.
C27_Witness ==
    /\ request.path = "/api/job-description"
    /\ request.session_id = "s1"
    /\ response.status = 200
    /\ SESSIONS["s1"].parsed_resume # NoneDict
    /\ SESSIONS["s1"].parsed_job_description # NoneDict
    /\ "s2" \in DOMAIN SESSIONS
    /\ Len(SESSIONS["s2"].history) = 2

\* An argument that is neither absent nor empty.
Supplied(x) == x # NoneStr /\ x # <<>>

\* C28: create_session stores under the id the session it returns; its
\* role, company and interviewer_type are the arguments where these are
\* supplied (not absent and not empty) and 'Senior Study Manager', 'Taiho
\* Oncology' and hiring_manager where they are not; its current_step is
\* identify_principle, its question_type curveball, its current_question
\* and principle are empty strings, its anchors and history are empty, and
\* resume, job_description and both parsed documents are None.
C28_CreatedSessionHasDefaults ==
    Returned("create_session") =>
        /\ frame.session_id \in DOMAIN SESSIONS
        /\ SESSIONS[frame.session_id] = frame.result
        /\ LET session == SESSIONS[frame.session_id] IN
           /\ session.role =
                 IF Supplied(frame.role) THEN frame.role
                 ELSE <<"S","e","n","i","o","r"," ","S","t","u","d","y"," ","M","a","n","a","g","e","r">>
           /\ session.company =
                 IF Supplied(frame.company) THEN frame.company
                 ELSE <<"T","a","i","h","o"," ","O","n","c","o","l","o","g","y">>
           /\ session.interviewer_type =
                 IF frame.interviewer_type \in {"recruiter", "ceo"}
                 THEN frame.interviewer_type ELSE "hiring_manager"
           /\ session.current_step = "identify_principle"
           /\ session.question_type = "curveball"
           /\ session.current_question = <<>>
           /\ session.principle = <<>>
           /\ session.anchors = <<>>
           /\ session.history = <<>>
           /\ session.resume = NoneStr
           /\ session.job_description = NoneStr
           /\ session.parsed_resume = NoneDict
           /\ session.parsed_job_description = NoneDict

\* C28 witness: create_session has returned for a given role, an empty
\* company and an absent interviewer type, and the stored session has the
\* role and the two defaults.
C28_Witness ==
    /\ Returned("create_session")
    /\ frame.role = <<"Q","A"," ","L","e","a","d">>
    /\ frame.company = <<>>
    /\ frame.interviewer_type = None
    /\ "s2" \in DOMAIN SESSIONS
    /\ SESSIONS["s2"].role = <<"Q","A"," ","L","e","a","d">>
    /\ SESSIONS["s2"].company = <<"T","a","i","h","o"," ","O","n","c","o","l","o","g","y">>
    /\ SESSIONS["s2"].interviewer_type = "hiring_manager"

\* C29: after a question request of a bank type t (of those asked for) that
\* is answered with 200, the session's question_type is t and its
\* current_question is a
\* question of the bank of t; after a personalized-question request that is
\* answered with a question, question_type is 'personalized' and
\* current_question is one of the questions generate_personalized_questions
\* returns for the session.
C29_QuestionComesFromItsSource ==
    [][LET session_id == request'.session_id IN
       /\ (request'.path = "/api/question" /\ response'.status = 200)
          => \A t \in AskedTypes \cap QuestionType :
                Question(session_id, t)
                => /\ SESSIONS'[session_id].question_type = t
                   /\ \E k \in 1..Len(QUESTION_BANKS[t]) :
                         SESSIONS'[session_id].current_question =
                            QUESTION_BANKS[t][k]
       /\ (/\ request'.path = "/api/personalized-question"
           /\ response'.status = 200
           /\ response'.question # NoneStr
           /\ PersonalizedQuestion(session_id))
          => LET before == generate_personalized_questions(
                               SESSIONS[session_id])
                 after == generate_personalized_questions(
                              SESSIONS'[session_id])
             IN /\ SESSIONS'[session_id].question_type = "personalized"
                /\ before # NoneList
                /\ after = before
                /\ \E k \in 1..Len(before) :
                      SESSIONS'[session_id].current_question = before[k]]_vars

\* C29 witness: a personalized question has been issued, and it is the
\* requirement question of the uploaded documents.
C29_Witness ==
    /\ request.path = "/api/personalized-question"
    /\ request.session_id = "s1"
    /\ response.status = 200
    /\ SESSIONS["s1"].question_type = "personalized"
    /\ SESSIONS["s1"].current_question =
          <<"Y","o","u"," ","m","e","n","t","i","o","n","e","d"," ","r","e","l","e","v","a","n","t"," ","e","x","p","e","r","i","e","n","c","e","."," ","C","a","n"," ","y","o","u"," ","e","l","a","b","o","r","a","t","e"," ","o","n",":"," ","5"," ","y","e","a","r","s"," ","P","y","t","h","o","n">>
    /\ response.question = SESSIONS["s1"].current_question

\* C30: the messages handed to the collaborator are the last min(10, n)
\* entries of the n entries of the session's history, in their order,
\* followed by the new user message; the history of the session is the
\* same after the list is built.
C30_LastTenAndTheNewMessage ==
    [][(fn = "get_coaching_response" /\ pc = "call") =>
          LET history == frame.session.history
              n == IF Len(history) < 10 THEN Len(history) ELSE 10
          IN /\ frame'.messages =
                   [k \in 1..(n + 1) |->
                       IF k <= n THEN history[Len(history) - n + k]
                       ELSE [role |-> "user",
                             content |-> frame.user_message]]
             /\ frame'.session.history = history]_vars

\* C30 witness: for a history of 12 entries the collaborator is about to be
\* called with 11 messages, the first of which is the third entry of the
\* history.
C30_Witness ==
    /\ fn = "get_coaching_response"
    /\ pc = "create"
    /\ Len(frame.session.history) = 12
    /\ Len(frame.messages) = 11
    /\ frame.messages[1] = frame.session.history[3]
    /\ frame.messages[11].content = frame.user_message

---------------------------------------------------------------------------
(* A caller that makes one parser call after another.  The frame of the    *)
(* call that returned is still there when the next call is entered; in     *)
(* this machine response is the caller's record of what the first call of  *)
(* each function on each text returned.                                    *)

ReparsedResumes ==
    {<<"S","k","i","l","l","s",":","\n","P","y","t","h","o","n",","," ","G","o">>, <<"E","x","p","e","r","i","e","n","c","e",":","\n"," ","L","e","d"," ","t","e","a","m"," ">>}

ReparsedJDs ==
    {<<"Q","A"," ","L","e","a","d","\n","R","e","q","u","i","r","e","d"," ","S","k","i","l","l","s","\n"," ","5"," ","y","e","a","r","s"," ","P","y","t","h","o","n"," ">>, <<"R","e","s","p","o","n","s","i","b","i","l","i","t","i","e","s",":","\n","T","e","s","t","i","n","g">>}

InitReparse ==
    /\ SESSIONS = <<>>
    /\ request = NoRequest
    /\ response = <<>>
    /\ \/ fn = "parse_resume" /\ text \in ReparsedResumes
       \/ fn = "parse_job_description" /\ text \in ReparsedJDs
    /\ lines = <<>>
    /\ i = 0
    /\ frame = NoneDict
    /\ pc = "entry"

\* index.py:300, 378: the caller keeps the dictionary returned and calls a
\* parser again; the new call iterates over its own lines from the start.
ParseAgain ==
    /\ pc = "done"
    /\ response' = IF <<fn, text>> \in DOMAIN response THEN response
                   ELSE response @@ (<<fn, text>> :> frame.parsed)
    /\ \/ fn' = "parse_resume" /\ text' \in ReparsedResumes
       \/ fn' = "parse_job_description" /\ text' \in ReparsedJDs
    /\ i' = 0
    /\ pc' = "entry"
    /\ UNCHANGED <<SESSIONS, request, lines, frame>>

NextReparse ==
    \/ NextParse
    \/ ParseAgain

SpecReparse == InitReparse /\ [][NextReparse]_vars

\* C31: a parser call on a text on which the same parser was called before
\* returns a result structurally identical to the one the earlier call
\* returned, whatever parser calls were made in between.
C31_SameTextSameResult ==
    (pc = "done" /\ <<fn, text>> \in DOMAIN response) =>
        frame.parsed = response[<<fn, text>>]

\* C31 witness: parse_resume has returned for the second time on the skills
\* resume, after calls of parse_job_description and of parse_resume on
\* another text, and the skills are the two of the first call.
C31_Witness ==
    /\ pc = "done"
    /\ fn = "parse_resume"
    /\ text = <<"S","k","i","l","l","s",":","\n","P","y","t","h","o","n",","," ","G","o">>
    /\ <<fn, text>> \in DOMAIN response
    /\ \E jd \in ReparsedJDs :
          <<"parse_job_description", jd>> \in DOMAIN response
    /\ <<"parse_resume", <<"E","x","p","e","r","i","e","n","c","e",":","\n"," ","L","e","d"," ","t","e","a","m"," ">>>> \in DOMAIN response
    /\ frame.parsed.skills = <<<<"P","y","t","h","o","n">>, <<"G","o">>>>

---------------------------------------------------------------------------
(* One session in a long coaching conversation: the client creates the     *)
(* session, sends responses, confirms steps and stores anchors and a       *)
(* principle, so that the history outgrows the window handed to the        *)
(* collaborator.                                                           *)

TalkIds == {"s1"}

\* One exchange more than the window of ten messages holds after MaxTurns
\* exchanges.
TalkLimit == 2 * MaxTurns + 2

NextTalk ==
    \/ \E session_id \in TalkIds, role \in RoleInputs :
           CreateSession(session_id, role)
    \/ \E session_id \in TalkIds, reply \in ResponseInputs :
           RespondUpTo(session_id, reply, TalkLimit)
    \/ \E session_id \in TalkIds : Confirm(session_id)
    \/ \E session_id \in TalkIds, anchors \in AnchorInputs :
           Anchors(session_id, anchors)
    \/ \E session_id \in TalkIds, principle \in PrincipleInputs :
           Principle(session_id, principle)

SpecTalk == Init /\ [][NextTalk]_vars

\* C32: a step that changes the history of a stored session is a respond
\* answered with 200 for that session, and it appends one user entry
\* followed by one assistant entry (a create request stores a new session);
\* every stored history has even length with roles user, assistant in
\* turn; and the message list of every respond that calls the collaborator
\* starts and ends with a user message.
C32_HistoryGrowsByPairs ==
    [][\A id \in DOMAIN SESSIONS' :
          LET after == SESSIONS'[id].history
              created == /\ request'.path = "/api/sessions"
                         /\ request'.session_id = id
          IN /\ (id \in DOMAIN SESSIONS /\ ~created
                    /\ after # SESSIONS[id].history) =>
                   LET before == SESSIONS[id].history
                       n == Len(before)
                   IN /\ request'.path = "/api/respond"
                      /\ request'.session_id = id
                      /\ response'.status = 200
                      /\ Len(after) = n + 2
                      /\ SubSeq(after, 1, n) = before
                      /\ after[n + 1].role = "user"
                      /\ after[n + 2].role = "assistant"
             /\ Len(after) % 2 = 0
             /\ \A k \in 1..Len(after) :
                   after[k].role = IF k % 2 = 1 THEN "user" ELSE "assistant"
             /\ (/\ request'.path = "/api/respond"
                 /\ request'.session_id = id
                 /\ id \in DOMAIN SESSIONS
                 /\ response'.status # 400) =>
                   LET messages == Messages(SESSIONS[id], <<>>) IN
                   /\ messages[1].role = "user"
                   /\ messages[Len(messages)].role = "user"]_vars

\* C32 witness: a respond was answered with 200 on a history of 12 entries,
\* more than the window holds, and the history now has 14.
C32_Witness ==
    /\ request = [path |-> "/api/respond", session_id |-> "s1"]
    /\ response.status = 200
    /\ Len(SESSIONS["s1"].history) = 14
    /\ SESSIONS["s1"].current_step = "guided_recall"

\* C33: when the collaborator fails during a respond with a non-empty
\* response for a stored session, the exception leaves the handler (no
\* reply is sent and no second call is made) and the session is as before
\* the request: the history has no new entry and current_step, anchors and
\* principle are unchanged.
C33_FailureLeavesSession ==
    [][\A id \in TalkIds, reply \in ResponseInputs \ {<<>>} :
          (/\ id \in DOMAIN SESSIONS
           /\ RespondUpTo(id, reply, TalkLimit)
           /\ response'.status # 200) =>
              /\ response' = Raised("UpstreamError")
              /\ SESSIONS'[id].history = SESSIONS[id].history
              /\ SESSIONS'[id].current_step = SESSIONS[id].current_step
              /\ SESSIONS'[id].anchors = SESSIONS[id].anchors
              /\ SESSIONS'[id].principle = SESSIONS[id].principle
              /\ SESSIONS' = SESSIONS]_vars

\* C33 witness: the collaborator failed on a respond to a session that has
\* a history, anchors and a step past the first one.
C33_Witness ==
    /\ request = [path |-> "/api/respond", session_id |-> "s1"]
    /\ response = Raised("UpstreamError")
    /\ Len(SESSIONS["s1"].history) = 4
    /\ SESSIONS["s1"].anchors # <<>>
    /\ SESSIONS["s1"].principle # <<>>
    /\ SESSIONS["s1"].current_step = "delivery_practice"

\* C34: a question request for a stored session whose question_type is not
\* one of the five bank types is answered with a question of the curveball
\* bank and resets the session as any new question does.
C34_UnknownTypeGetsCurveball ==
    [][\A id \in SessionIds, t \in QuestionTypeInputs \ QuestionType :
          (id \in DOMAIN SESSIONS /\ Question(id, t)) =>
              /\ response'.status = 200
              /\ response'.question \in Choices(CURVEBALL_QUESTIONS)
              /\ SESSIONS'[id].current_question = response'.question
              /\ SESSIONS'[id].question_type = t
              /\ SESSIONS'[id].current_step = "identify_principle"
              /\ SESSIONS'[id].anchors = <<>>
              /\ SESSIONS'[id].principle = <<>>]_vars

---------------------------------------------------------------------------
(* One session and its documents: the client uploads resumes and job       *)
(* descriptions of several kinds and asks for standard and personalized    *)
(* questions.                                                              *)

DocIds == {"s1"}

NextDocs ==
    \/ \E session_id \in DocIds, role \in RoleInputs :
           CreateSession(session_id, role)
    \/ \E session_id \in DocIds, question_type \in QuestionTypeInputs :
           Question(session_id, question_type)
    \/ \E session_id \in DocIds, anchors \in AnchorInputs :
           Anchors(session_id, anchors)
    \/ \E session_id \in DocIds, principle \in PrincipleInputs :
           Principle(session_id, principle)
    \/ \E session_id \in DocIds,
          resume_text \in ResumeInputs \cup MoreResumes :
           Resume(session_id, resume_text)
    \/ \E session_id \in DocIds, jd_text \in JDInputs \cup MoreJDs :
           JobDescription(session_id, jd_text)
    \/ \E session_id \in DocIds : PersonalizedQuestion(session_id)

SpecDocs == Init /\ [][NextDocs]_vars

\* The session has a parsed document.
HasDocument(session) ==
    \/ session.parsed_resume # NoneDict
    \/ session.parsed_job_description # NoneDict

\* C35: a personalized-question request for a session that has a parsed
\* document from which no question is generated is answered with 200 and
\* without a question, and leaves the session as it was: current_question,
\* question_type, current_step, anchors and principle keep their values.
C35_NoQuestionNoChange ==
    [][\A id \in DocIds :
          (/\ id \in DOMAIN SESSIONS
           /\ request'.path = "/api/personalized-question"
           /\ request'.session_id = id
           /\ HasDocument(SESSIONS[id])
           /\ generate_personalized_questions(SESSIONS[id]) = NoneList) =>
              /\ response'.status = 200
              /\ response'.question = NoneStr
              /\ response'.current_step = None
              /\ SESSIONS'[id].current_question = SESSIONS[id].current_question
              /\ SESSIONS'[id].question_type = SESSIONS[id].question_type
              /\ SESSIONS'[id].current_step = SESSIONS[id].current_step
              /\ SESSIONS'[id].anchors = SESSIONS[id].anchors
              /\ SESSIONS'[id].principle = SESSIONS[id].principle
              /\ SESSIONS' = SESSIONS]_vars

\* C35 witness: a personalized question was asked for and not given to a
\* session whose only document is a resume of two skills and which holds a
\* motivation question, anchors and a principle.
C35_Witness ==
    /\ request = [path |-> "/api/personalized-question", session_id |-> "s1"]
    /\ response = Reply(200, None, None, NoneStr)
    /\ SESSIONS["s1"].parsed_resume # NoneDict
    /\ SESSIONS["s1"].parsed_resume.skills = <<<<"P","y","t","h","o","n">>, <<"G","o">>>>
    /\ SESSIONS["s1"].parsed_job_description = NoneDict
    /\ SESSIONS["s1"].question_type = "motivation"
    /\ SESSIONS["s1"].current_question # <<>>
    /\ SESSIONS["s1"].anchors # <<>>
    /\ SESSIONS["s1"].principle # <<>>

\* The parsed documents of the session are the parses of its raw ones.
DocumentsAgree(session) ==
    /\ session.parsed_resume = NoneDict <=> session.resume = NoneStr
    /\ session.resume # NoneStr =>
          session.parsed_resume = parse_resume(session.resume)
    /\ session.parsed_job_description = NoneDict <=>
          session.job_description = NoneStr
    /\ session.job_description # NoneStr =>
          session.parsed_job_description =
              parse_job_description(session.job_description)

\* C36: in every state each stored session's parsed_resume is absent
\* exactly when its resume is absent and otherwise is parse_resume of the
\* resume, and likewise for the job description; a step that changes the
\* resume or parsed_resume of a session is a resume upload answered with
\* 200 for it, and one that changes job_description or
\* parsed_job_description is a job-description upload answered with 200 (a
\* create request stores a new session).
C36_ParsedAgreesWithRaw ==
    [][\A id \in DOMAIN SESSIONS' :
          /\ DocumentsAgree(SESSIONS'[id])
          /\ (/\ id \in DOMAIN SESSIONS
              /\ ~(request'.path = "/api/sessions"
                      /\ request'.session_id = id)) =>
                /\ (\/ SESSIONS'[id].resume # SESSIONS[id].resume
                    \/ SESSIONS'[id].parsed_resume #
                           SESSIONS[id].parsed_resume) =>
                       /\ request' = [path |-> "/api/resume",
                                      session_id |-> id]
                       /\ response'.status = 200
                /\ (\/ SESSIONS'[id].job_description #
                           SESSIONS[id].job_description
                    \/ SESSIONS'[id].parsed_job_description #
                           SESSIONS[id].parsed_job_description) =>
                       /\ request' = [path |-> "/api/job-description",
                                      session_id |-> id]
                       /\ response'.status = 200]_vars

\* C36 witness: a second resume has replaced the first one, next to a job
\* description, and a question was issued since.
C36_Witness ==
    /\ request.path = "/api/question"
    /\ response.status = 200
    /\ SESSIONS["s1"].resume = <<"E","x","p","e","r","i","e","n","c","e",":","\n","L","e","d"," ","a"," ","t","e","a","m"," ","o","f"," ","f","i","v","e"," ","e","n","g","i","n","e","e","r","s">>
    /\ SESSIONS["s1"].parsed_resume.experience =
          <<<<"L","e","d"," ","a"," ","t","e","a","m"," ","o","f"," ","f","i","v","e"," ","e","n","g","i","n","e","e","r","s">>>>
    /\ SESSIONS["s1"].parsed_resume.skills = <<>>
    /\ SESSIONS["s1"].job_description = <<"R","e","s","p","o","n","s","i","b","i","l","i","t","i","e","s",":","\n","T","e","s","t","i","n","g">>
    /\ SESSIONS["s1"].parsed_job_description.responsibilities =
          <<<<"T","e","s","t","i","n","g">>>>

\* The path is one of the two uploads.
UploadPaths == {"/api/resume", "/api/job-description"}

FromFirstHeader ==
    IF Headers = {} THEN <<>>
    ELSE Join(<<"\n">>, SubSeq(InputLines, Least(Headers), Len(InputLines)))

\* The dictionary parse_resume holds for the text from its first header on
\* when the last section is saved, before the summary fallback.
SectionsFromFirstHeader ==
    ResumeFlush(ResumeLoop(ResumeEntry(FromFirstHeader),
                           SplitLines(FromFirstHeader)))

\* C37: the lines before the first header line contribute to no section
\* field.  In parse_resume skills, experience and education are those of
\* the text from its first header on, and so is the summary unless it is
\* the fallback, the first characters of the raw text; in
\* parse_job_description requirements, responsibilities, qualifications and
\* company_info are those of the text from its first header on; a text
\* without any header gives empty section fields.
C37_LinesBeforeFirstHeaderAreDropped ==
    /\ (fn = "parse_resume" /\ pc = "done" /\ Truthy(text)) =>
          LET sections == SectionsFromFirstHeader
              none == Headers = {}
          IN /\ \A field \in {"skills", "experience", "education"} :
                   /\ frame.parsed[field] = sections[field]
                   /\ none => frame.parsed[field] = <<>>
             /\ frame.parsed.summary \in
                   {sections.summary, Take(text, SummaryLimit)}
             /\ sections.summary # <<>> =>
                   frame.parsed.summary = sections.summary
             /\ none => sections.summary = <<>>
    /\ (fn = "parse_job_description" /\ pc = "done" /\ Truthy(text)) =>
          LET sections == parse_job_description(FromFirstHeader)
              none == Headers = {}
          IN \A field \in {"requirements", "responsibilities",
                           "qualifications", "company_info"} :
                /\ frame.parsed[field] = sections[field]
                /\ none => frame.parsed[field] = <<>>

\* C37 witness: parse_resume has returned for a text whose first line is a
\* content line, followed by a header and its content.
C37_Witness ==
    /\ fn = "parse_resume"
    /\ pc = "done"
    /\ text = <<"P","y","t","h","o","n",","," ","G","o","\n","E","x","p","e","r","i","e","n","c","e",":","\n"," ","L","e","d"," ","t","e","a","m"," ">>
    /\ frame.parsed.experience = <<<<"L","e","d"," ","t","e","a","m">>>>
    /\ frame.parsed.skills = <<>>

\* The fields of a session that a new question leaves alone.
CarriedOver ==
    {"session_id", "role", "company", "interviewer_type", "history",
     "resume", "job_description", "parsed_resume", "parsed_job_description"}

\* C38: a request answered with a new question, standard or personalized,
\* leaves history, role, company, interviewer_type, resume,
\* job_description, parsed_resume and parsed_job_description of the session
\* as they were, so the history gathered under one question is there under
\* the next; only question_type, current_question, current_step, anchors
\* and principle can differ.
C38_NewQuestionKeepsTheRest ==
    [][\A id \in SessionIds :
          Issued(id) =>
             /\ DOMAIN SESSIONS'[id] = DOMAIN SESSIONS[id]
             /\ \A field \in CarriedOver :
                   SESSIONS'[id][field] = SESSIONS[id][field]]_vars

\* C38 witness: a personalized question was issued to a session that has a
\* history of two entries, both documents and the role of the job
\* description.
C38_Witness ==
    /\ request = [path |-> "/api/personalized-question", session_id |-> "s1"]
    /\ response.status = 200
    /\ response.question # NoneStr
    /\ SESSIONS["s1"].question_type = "personalized"
    /\ Len(SESSIONS["s1"].history) = 2
    /\ SESSIONS["s1"].resume # NoneStr
    /\ SESSIONS["s1"].job_description # NoneStr
    /\ SESSIONS["s1"].role = <<"Q","A"," ","L","e","a","d">>

\* C39: after a create request for an id that is already stored,
\* get_session gives a session with the default step, no question, no
\* anchors, no principle, an empty history and no documents, whatever the
\* session stored under the id before held.
C39_RecreationStartsAfresh ==
    [][\A id \in CreateIds :
          (/\ id \in DOMAIN SESSIONS
           /\ request'.path = "/api/sessions"
           /\ request'.session_id = id) =>
              LET fresh == get_session(id)' IN
              /\ fresh # NoneDict
              /\ fresh.session_id = id
              /\ fresh.question_type = "curveball"
              /\ fresh.current_step = "identify_principle"
              /\ fresh.current_question = <<>>
              /\ fresh.anchors = <<>>
              /\ fresh.principle = <<>>
              /\ fresh.history = <<>>
              /\ fresh.resume = NoneStr
              /\ fresh.job_description = NoneStr
              /\ fresh.parsed_resume = NoneDict
              /\ fresh.parsed_job_description = NoneDict
              /\ fresh.role = <<"S","e","n","i","o","r"," ","S","t","u","d","y"," ","M","a","n","a","g","e","r">>]_vars

\* The session stored under "s1" is as create_session leaves it.
FreshlyCreated ==
    /\ request = [path |-> "/api/sessions", session_id |-> "s1"]
    /\ SESSIONS["s1"].history = <<>>
    /\ SESSIONS["s1"].resume = NoneStr
    /\ SESSIONS["s1"].job_description = NoneStr
    /\ SESSIONS["s1"].current_question = <<>>

\* C39 witness: a session with a history, both documents, a question, the
\* role of the job description and a step past the first one is about to be
\* created again.
C39_Witness ==
    /\ "s1" \in DOMAIN SESSIONS
    /\ Len(SESSIONS["s1"].history) = 2
    /\ SESSIONS["s1"].resume # NoneStr
    /\ SESSIONS["s1"].job_description # NoneStr
    /\ SESSIONS["s1"].role = <<"Q","A"," ","L","e","a","d">>
    /\ SESSIONS["s1"].current_question # <<>>
    /\ SESSIONS["s1"].current_step = "guided_recall"
    /\ ENABLED (CreateSession("s1", NoneStr) /\ FreshlyCreated')

=============================================================================
